---------------------------- MODULE Spec2Model ----------------------------
(***************************************************************************)
(* SlideSage: a model of one analysis run (src/slide_sage.py main) and of  *)
(* the components it drives: text extraction (src/core/extractor.py,       *)
(* src/utils/helpers.py), the Gemini adapter and its JSON parse chain      *)
(* (src/core/analyzer.py), the rule-based detector and the reconciliation  *)
(* engine (src/core/detector.py) and the renderer's dispatch               *)
(* (src/core/output.py).                                                   *)
(*                                                                         *)
(* Python str values are sequences of one-character strings, so that       *)
(* lower(), slicing, substring tests and the regular expressions of the    *)
(* source are computed character by character.                             *)
(***************************************************************************)
EXTENDS Integers, Sequences, FiniteSets, TLC

(***************************************************************************)
(* Characters and str helpers                                              *)
(***************************************************************************)
UpperChars == <<"A","B","C","D","E","F","G","H","I","J","K","L","M","N","O","P","Q","R","S","T","U","V","W","X","Y","Z">>
LowerChars == <<"a","b","c","d","e","f","g","h","i","j","k","l","m","n","o","p","q","r","s","t","u","v","w","x","y","z">>
DigitChars == <<"0","1","2","3","4","5","6","7","8","9">>
\* the character ` (which a TLA+ string literal cannot hold)
Backtick == "backtick"

Range(f) == {f[i] : i \in DOMAIN f}

Digits == Range(DigitChars)
Uppers == Range(UpperChars)
Lowers == Range(LowerChars)
\* \w of Python's re on str: letters, digits, underscore
WordChars == Digits \cup Uppers \cup Lowers \cup {"_"}
\* \s of Python's re, and the characters str.strip() removes
SpaceChars == {" ", "\t", "\n", "\r"}

IsDigit(c) == c \in Digits
IsUpper(c) == c \in Uppers
IsLower(c) == c \in Lowers
IsWordChar(c) == c \in WordChars
IsSpace(c) == c \in SpaceChars

DigitValues == [c \in Digits |-> (CHOOSE i \in 1..10 : DigitChars[i] = c) - 1]
DigitVal(c) == DigitValues[c]

\* str.lower() on one character
LowerOf == [c \in Uppers |-> LowerChars[CHOOSE i \in 1..26 : UpperChars[i] = c]]
LowerChar(c) == IF c \in Uppers THEN LowerOf[c] ELSE c

\* str.lower()
Lower(s) == [i \in 1..Len(s) |-> LowerChar(s[i])]

\* s[i:i+1] with a 1-based index: "" past either end
At(s, i) == IF i \in 1..Len(s) THEN s[i] ELSE ""

\* s[a-1:b] (1-based, inclusive), empty when b < a
Slice(s, a, b) == IF b < a THEN <<>> ELSE SubSeq(s, a, b)

\* s.startswith(w, i-1)
StartsWithAt(s, i, w) == /\ i >= 1
                         /\ i + Len(w) - 1 <= Len(s)
                         /\ \A j \in 1..Len(w) : s[i + j - 1] = w[j]

\* w in s
Contains(s, w) == \E i \in 1..(Len(s) + 1) : StartsWithAt(s, i, w)

\* any(word in text for word in words)
ContainsAny(s, words) == \E w \in Range(words) : Contains(s, w)

Min(a, b) == IF a <= b THEN a ELSE b

RECURSIVE JoinFrom(_, _, _)
JoinFrom(sep, parts, i) ==
    IF i > Len(parts) THEN <<>>
    ELSE IF i = Len(parts) THEN parts[i]
    ELSE parts[i] \o sep \o JoinFrom(sep, parts, i + 1)

\* sep.join(parts)
Join(sep, parts) == JoinFrom(sep, parts, 1)

\* index of the first non-space character at or after i (Len(s)+1 if none)
RECURSIVE SkipSpace(_, _)
SkipSpace(s, i) == IF i <= Len(s) /\ IsSpace(s[i]) THEN SkipSpace(s, i + 1) ELSE i

\* index just past the run of digits starting at i
RECURSIVE DigitsEnd(_, _)
DigitsEnd(s, i) == IF i <= Len(s) /\ IsDigit(s[i]) THEN DigitsEnd(s, i + 1) ELSE i

\* str.strip()
RECURSIVE RStripEnd(_, _)
RStripEnd(s, j) == IF j >= 1 /\ IsSpace(s[j]) THEN RStripEnd(s, j - 1) ELSE j
Strip(s) == Slice(s, SkipSpace(s, 1), RStripEnd(s, Len(s)))

(***************************************************************************)
(* JSON values as Python sees them after json.loads.  Every value is a     *)
(* record of the same shape: t is the Python type, s the characters of a   *)
(* str (or of a float literal), n the int (1/0 for bool, and for a float   *)
(* whether it is non-zero), k the keys of a dict in insertion order and c  *)
(* the values of a dict or the items of a list.                            *)
(***************************************************************************)
JV(t, s, n, k, c) == [t |-> t, s |-> s, n |-> n, k |-> k, c |-> c]
JNull == JV("NoneType", <<>>, 0, <<>>, <<>>)
JBool(b) == JV("bool", <<>>, IF b THEN 1 ELSE 0, <<>>, <<>>)
JInt(n) == JV("int", <<>>, n, <<>>, <<>>)
JFloat(lit, nonzero) == JV("float", lit, IF nonzero THEN 1 ELSE 0, <<>>, <<>>)
JStr(s) == JV("str", s, 0, <<>>, <<>>)
JList(items) == JV("list", <<>>, 0, <<>>, items)
JDict(keys, vals) == JV("dict", <<>>, 0, keys, vals)

IsDict(v) == v.t = "dict"
IsList(v) == v.t = "list"
IsStr(v) == v.t = "str"

\* bool(v)
Truthy(v) ==
    CASE v.t = "NoneType" -> FALSE
      [] v.t \in {"bool", "int", "float"} -> v.n # 0
      [] v.t = "str" -> Len(v.s) > 0
      [] v.t = "list" -> Len(v.c) > 0
      [] v.t = "dict" -> Len(v.k) > 0

\* key in d, for a dict d
HasKey(d, key) == \E i \in 1..Len(d.k) : d.k[i] = key

\* d[key], for a dict d that has the key
Item(d, key) == d.c[CHOOSE i \in 1..Len(d.k) : d.k[i] = key]

\* d.get(key, default), for a dict d
Get(d, key, default) == IF HasKey(d, key) THEN Item(d, key) ELSE default

\* d[key] = val on the (keys, values) of a dict: a repeated key keeps its place
DictPut(keys, vals, key, val) ==
    IF \E i \in 1..Len(keys) : keys[i] = key
    THEN [k |-> keys,
          c |-> [vals EXCEPT ![CHOOSE i \in 1..Len(keys) : keys[i] = key] = val]]
    ELSE [k |-> Append(keys, key), c |-> Append(vals, val)]


(***************************************************************************)
(* json.loads (CPython's json.decoder / json.scanner), on the characters.  *)
(* A scan returns [ok, v, i]: whether a value was read, the value, and the *)
(* index just past it.  Not modelled: \b \f \uXXXX escapes and the         *)
(* NaN/Infinity literals, which no text of the model contains.             *)
(***************************************************************************)
ScanFail == [ok |-> FALSE, v |-> JNull, i |-> 0]
ScanOk(v, i) == [ok |-> TRUE, v |-> v, i |-> i]

\* json.decoder.WHITESPACE.match(s, i).end()
RECURSIVE SkipWS(_, _)
SkipWS(s, i) == IF i <= Len(s) /\ s[i] \in {" ", "\t", "\n", "\r"} THEN SkipWS(s, i + 1) ELSE i

\* the character a backslash escape stands for ("" if the escape is invalid)
Unescape(c) ==
    CASE c = "\"" -> "\""
      [] c = "\\" -> "\\"
      [] c = "/" -> "/"
      [] c = "n" -> "\n"
      [] c = "t" -> "\t"
      [] c = "r" -> "\r"
      [] OTHER -> ""

\* whether the character at p follows an odd run of backslashes that starts at
\* or after i, that is, whether it is the second character of an escape
Escaped(s, i, p) ==
    LET run == CHOOSE q \in (i - 1)..(p - 1) :
                   /\ q = i - 1 \/ s[q] # "\\"
                   /\ \A r \in (q + 1)..(p - 1) : s[r] = "\\"
    IN  (p - 1 - run) % 2 = 1

\* py_scanstring(s, end, strict=True): i is the index after the opening quote.
\* The string ends at the first quote that is not escaped; a control character
\* or an unknown escape before it is a JSONDecodeError.
scanstring(s, i) ==
    LET closing == {j \in i..Len(s) : s[j] = "\"" /\ ~Escaped(s, i, j)}
        end == CHOOSE j \in closing : \A k \in closing : j <= k
        positions == [k \in 1..(end - i) |-> i + k - 1]
        content == SelectSeq(positions, LAMBDA p : s[p] # "\\" \/ Escaped(s, i, p))
    IN  IF closing = {} THEN ScanFail
        ELSE IF \E p \in i..(end - 1) :
                    \/ ~Escaped(s, i, p) /\ s[p] \in {"\n", "\t", "\r"}
                    \/ Escaped(s, i, p) /\ Unescape(s[p]) = ""
             THEN ScanFail
        ELSE ScanOk(JStr([k \in 1..Len(content) |->
                            IF Escaped(s, i, content[k]) THEN Unescape(s[content[k]])
                            ELSE s[content[k]]]), end + 1)

\* int() of a run of digits s[a..b]
RECURSIVE DigitsVal(_, _, _)
DigitsVal(s, a, b) == IF b < a THEN 0 ELSE 10 * DigitsVal(s, a, b - 1) + DigitVal(s[b])

\* the number read by NUMBER_RE, given where its parts end: p is the first
\* digit, and the integer, fraction and exponent end before intEnd, fracEnd, expEnd
NumberValue(s, i, p, intEnd, expEnd) ==
    IF expEnd = intEnd
    THEN ScanOk(JInt(IF p > i THEN 0 - DigitsVal(s, p, intEnd - 1)
                              ELSE DigitsVal(s, p, intEnd - 1)), intEnd)
    ELSE ScanOk(JFloat(SubSeq(s, i, expEnd - 1),
                       \E j \in p..(expEnd - 1) : s[j] \in {"1","2","3","4","5","6","7","8","9"}
                                                  /\ \A k \in p..j : s[k] \notin {"e", "E"}),
                expEnd)

\* ([eE][-+]?\d+)? from fracEnd: where the exponent ends
ExponentEnd(s, fracEnd) ==
    IF At(s, fracEnd) \in {"e", "E"}
    THEN IF At(s, fracEnd + 1) \in {"-", "+"}
         THEN IF IsDigit(At(s, fracEnd + 2)) THEN DigitsEnd(s, fracEnd + 2) ELSE fracEnd
         ELSE IF IsDigit(At(s, fracEnd + 1)) THEN DigitsEnd(s, fracEnd + 1) ELSE fracEnd
    ELSE fracEnd

\* (\.\d+)? from intEnd: where the fraction ends
FractionEnd(s, intEnd) ==
    IF At(s, intEnd) = "." /\ IsDigit(At(s, intEnd + 1)) THEN DigitsEnd(s, intEnd + 1) ELSE intEnd

NumberAfterInt(s, i, p, intEnd) == NumberValue(s, i, p, intEnd, ExponentEnd(s, FractionEnd(s, intEnd)))

NumberFrom(s, i, p) ==
    IF ~IsDigit(At(s, p)) THEN ScanFail
    ELSE NumberAfterInt(s, i, p, IF At(s, p) = "0" THEN p + 1 ELSE DigitsEnd(s, p))

\* json.scanner.NUMBER_RE.match(s, i): (-?(?:0|[1-9]\d*))(\.\d+)?([eE][-+]?\d+)?
ScanNumber(s, i) == NumberFrom(s, i, IF At(s, i) = "-" THEN i + 1 ELSE i)

RECURSIVE scan_once(_, _), JSONObjectMembers(_, _, _, _), JSONArrayItems(_, _, _)

\* json.decoder.JSONObject: i is the index after "{"
ObjectFrom(s, e) ==
    IF At(s, e) = "}" THEN ScanOk(JDict(<<>>, <<>>), e + 1)
    ELSE IF At(s, e) # "\"" THEN ScanFail
    ELSE JSONObjectMembers(s, e + 1, <<>>, <<>>)

JSONObject(s, i) == ObjectFrom(s, IF At(s, i) # "\"" THEN SkipWS(s, i) ELSE i)

\* after a member: e is the index of the next token, d the (keys, values) so far
MemberEnd(s, e, d) ==
    IF At(s, e) = "}" THEN ScanOk(JDict(d.k, d.c), e + 1)
    ELSE IF At(s, e) # "," THEN ScanFail
    ELSE IF At(s, SkipWS(s, e + 1)) # "\"" THEN ScanFail
    ELSE JSONObjectMembers(s, SkipWS(s, e + 1) + 1, d.k, d.c)

MemberValue(s, key, val, keys, vals) ==
    IF ~val.ok THEN ScanFail
    ELSE MemberEnd(s, SkipWS(s, val.i), DictPut(keys, vals, key.v.s, val.v))

MemberColon(s, key, colon, keys, vals) ==
    IF At(s, colon) # ":" THEN ScanFail
    ELSE MemberValue(s, key, scan_once(s, SkipWS(s, colon + 1)), keys, vals)

MemberKey(s, key, keys, vals) ==
    IF ~key.ok THEN ScanFail ELSE MemberColon(s, key, SkipWS(s, key.i), keys, vals)

\* the loop of JSONObject: i is the index after the opening quote of a key
JSONObjectMembers(s, i, keys, vals) == MemberKey(s, scanstring(s, i), keys, vals)

\* json.decoder.JSONArray: i is the index after "["
ArrayFrom(s, e) ==
    IF At(s, e) = "]" THEN ScanOk(JList(<<>>), e + 1) ELSE JSONArrayItems(s, e, <<>>)

JSONArray(s, i) == ArrayFrom(s, SkipWS(s, i))

ItemEnd(s, e, items) ==
    IF At(s, e) = "]" THEN ScanOk(JList(items), e + 1)
    ELSE IF At(s, e) # "," THEN ScanFail
    ELSE JSONArrayItems(s, SkipWS(s, e + 1), items)

ItemValue(s, val, items) ==
    IF ~val.ok THEN ScanFail ELSE ItemEnd(s, SkipWS(s, val.i), Append(items, val.v))

\* the loop of JSONArray: i is the index of the next item
JSONArrayItems(s, i, items) == ItemValue(s, scan_once(s, i), items)

\* json.scanner.py_make_scanner._scan_once
ScanAt(s, i, c) ==
    CASE c = "\"" -> scanstring(s, i + 1)
      [] c = "{" -> JSONObject(s, i + 1)
      [] c = "[" -> JSONArray(s, i + 1)
      [] c = "n" /\ StartsWithAt(s, i, <<"n","u","l","l">>) -> ScanOk(JNull, i + 4)
      [] c = "t" /\ StartsWithAt(s, i, <<"t","r","u","e">>) -> ScanOk(JBool(TRUE), i + 4)
      [] c = "f" /\ StartsWithAt(s, i, <<"f","a","l","s","e">>) -> ScanOk(JBool(FALSE), i + 5)
      [] OTHER -> ScanNumber(s, i)

scan_once(s, i) == ScanAt(s, i, At(s, i))

\* the end of json.loads: nothing but whitespace may follow the value
LoadsEnd(s, r) ==
    IF r.ok /\ SkipWS(s, r.i) = Len(s) + 1
    THEN [ok |-> TRUE, v |-> r.v]
    ELSE [ok |-> FALSE, v |-> JNull]

\* json.loads(s): [ok, v]; ok = FALSE stands for json.JSONDecodeError
json_loads(s) == LoadsEnd(s, scan_once(s, SkipWS(s, 1)))

(***************************************************************************)
(* GeminiAnalyzer._robust_json_parse and _fix_common_json_issues           *)
(* (src/core/analyzer.py).  The regular expressions are matched the way    *)
(* Python's re matches them: leftmost, greedy or lazy as written.          *)
(***************************************************************************)
Fence == <<Backtick, Backtick, Backtick>>

\* smallest e >= i with s[e] = "}" followed by \s* and a fence (0 if none):
\* the lazy .*? of strategy 2 followed by \}\s*```
FenceCloseFrom(s, i) ==
    LET closes == {e \in i..Len(s) :
                      s[e] = "}" /\ StartsWithAt(s, SkipSpace(s, e + 1), Fence)}
    IN  IF closes = {} THEN 0 ELSE CHOOSE e \in closes : \A d \in closes : e <= d

\* r'```(?:json)?\s*(\{.*?\})\s*```' matches at i
FencedBlockOpensAt(s, i) ==
    /\ StartsWithAt(s, i, Fence)
    /\ LET p == IF StartsWithAt(s, i + 3, <<"j","s","o","n">>) THEN i + 7 ELSE i + 3
       IN  At(s, SkipSpace(s, p)) = "{" /\ FenceCloseFrom(s, SkipSpace(s, p) + 1) # 0

\* re.findall(r'```(?:json)?\s*(\{.*?\})\s*```', text, re.DOTALL), its first
\* match at or after i: [found, s], s being group 1
FencedBlockFrom(s, i) ==
    LET opens == {o \in i..Len(s) : FencedBlockOpensAt(s, o)}
    IN  IF opens = {} THEN [found |-> FALSE, s |-> <<>>]
        ELSE LET o == CHOOSE a \in opens : \A b \in opens : a <= b
                 p == IF StartsWithAt(s, o + 3, <<"j","s","o","n">>) THEN o + 7 ELSE o + 3
                 q == SkipSpace(s, p)
             IN  [found |-> TRUE, s |-> SubSeq(s, q, FenceCloseFrom(s, q + 1))]

\* index just past the run of [^{}] starting at i
SkipNonBrace(s, i) ==
    LET braces == {k \in i..Len(s) : s[k] \in {"{", "}"}}
    IN  IF i > Len(s) THEN i
        ELSE IF braces = {} THEN Len(s) + 1
        ELSE CHOOSE k \in braces : \A b \in braces : k <= b

\* (?:\{[^{}]*\}[^{}]*)* from i: the index just past the last complete group
RECURSIVE SkipInnerObjects(_, _)
SkipInnerObjects(s, i) ==
    LET k == SkipNonBrace(s, i + 1)
    IN  IF At(s, i) = "{" /\ At(s, k) = "}"
        THEN SkipInnerObjects(s, SkipNonBrace(s, k + 1))
        ELSE i

\* where r'\{[^{}]*(?:\{[^{}]*\}[^{}]*)*\}' started at the brace at i ends, if
\* a closing brace is there
BraceObjectEnd(s, i) == SkipInnerObjects(s, SkipNonBrace(s, i + 1))

\* re.findall(r'\{[^{}]*(?:\{[^{}]*\}[^{}]*)*\}', text, re.DOTALL) from i on
RECURSIVE BraceObjectsFrom(_, _)
BraceObjectsFrom(s, i) ==
    LET starts == {a \in i..Len(s) : s[a] = "{" /\ At(s, BraceObjectEnd(s, a)) = "}"}
    IN  IF starts = {} THEN <<>>
        ELSE LET a == CHOOSE x \in starts : \A y \in starts : x <= y
             IN  <<SubSeq(s, a, BraceObjectEnd(s, a))>> \o BraceObjectsFrom(s, BraceObjectEnd(s, a) + 1)

\* the first of two attempts that succeeded
OrElse(attempt, next) == IF attempt.ok THEN attempt ELSE next

\* json.loads on each candidate text in turn: the first that loads, as [ok, v]
RECURSIVE FirstLoadable(_, _)
FirstLoadable(candidates, i) ==
    IF i > Len(candidates) THEN [ok |-> FALSE, v |-> JNull]
    ELSE OrElse(json_loads(candidates[i]), FirstLoadable(candidates, i + 1))

\* strategy 4: strip, drop a leading and a trailing fence, strip
StripFences(text) ==
    LET a == Strip(text)
        b == IF StartsWithAt(a, 1, Fence) THEN Slice(a, 4, Len(a)) ELSE a
        c == IF Len(b) >= 3 /\ StartsWithAt(b, Len(b) - 2, Fence) THEN Slice(b, 1, Len(b) - 3) ELSE b
    IN  Strip(c)

\* a character outside the class [\w\s\{\}\[\]",:.-]
IsExtra(c) == ~(IsWordChar(c) \/ IsSpace(c) \/ c \in {"{", "}", "[", "]", "\"", ",", ":", ".", "-"})

\* start of the run of extra characters that ends at j (j+1 if the run is empty)
RECURSIVE ExtraRunStart(_, _)
ExtraRunStart(s, j) == IF j >= 1 /\ IsExtra(s[j]) THEN ExtraRunStart(s, j - 1) ELSE j + 1

\* re.sub(r'[^\w\s\{\}\[\]",:.-]+$', '', text): $ is the end, or before a final newline
DropTrailingExtra(s) ==
    IF Len(s) >= 1 /\ s[Len(s)] = "\n"
    THEN Slice(s, 1, ExtraRunStart(s, Len(s) - 1) - 1) \o <<"\n">>
    ELSE Slice(s, 1, ExtraRunStart(s, Len(s)) - 1)

\* ''.join(pieces[lo-1:hi])
RECURSIVE Flatten(_, _, _)
Flatten(pieces, lo, hi) ==
    IF lo > hi THEN <<>>
    ELSE IF lo = hi THEN pieces[lo]
    ELSE Flatten(pieces, lo, (lo + hi) \div 2) \o Flatten(pieces, (lo + hi) \div 2 + 1, hi)

\* re.sub(r',(\s*[}\]])', r'\1', text): a comma followed by \s* and a closing
\* brace or bracket is dropped
DropTrailingCommas(s) ==
    Flatten([i \in 1..Len(s) |->
                IF s[i] = "," /\ At(s, SkipSpace(s, i + 1)) \in {"}", "]"}
                THEN <<>> ELSE <<s[i]>>], 1, Len(s))

\* index just past the run of \w starting at i
RECURSIVE WordEnd(_, _)
WordEnd(s, i) == IF i <= Len(s) /\ IsWordChar(s[i]) THEN WordEnd(s, i + 1) ELSE i

\* re.sub(r'(\w+):', r'"\1":', text): a quote goes before each run of \w
\* that a colon follows, and before that colon
QuoteKeys(s) ==
    Flatten([i \in 1..Len(s) |->
                IF /\ IsWordChar(s[i])
                   /\ ~IsWordChar(At(s, i - 1))
                   /\ At(s, WordEnd(s, i)) = ":"
                THEN <<"\"", s[i]>>
                ELSE IF s[i] = ":" /\ IsWordChar(At(s, i - 1))
                THEN <<"\"", ":">>
                ELSE <<s[i]>>], 1, Len(s))

\* text.replace("'", '"')
SingleToDoubleQuotes(s) == [i \in 1..Len(s) |-> IF s[i] = "'" THEN "\"" ELSE s[i]]

\* re.sub(r'\s+', ' ', text): each run of whitespace becomes one space
CollapseSpace(s) ==
    Flatten([i \in 1..Len(s) |->
                IF ~IsSpace(s[i]) THEN <<s[i]>>
                ELSE IF IsSpace(At(s, i - 1)) THEN <<>>
                ELSE <<" ">>], 1, Len(s))

_fix_common_json_issues(text) ==
    LET t1 == DropTrailingExtra(text)
        t2 == DropTrailingCommas(t1)
        t3 == QuoteKeys(t2)
        t4 == SingleToDoubleQuotes(t3)
    IN  CollapseSpace(t4)

\* the candidates of a chain whose second strategy finds no fenced block
Candidates_without_fenced_block(text, n) ==
    CASE n = 1 -> <<text>>
      [] n = 2 -> <<>>
      [] n = 3 -> BraceObjectsFrom(text, 1)
      [] n = 4 -> <<StripFences(text)>>
      [] n = 5 -> <<_fix_common_json_issues(text)>>

\* The texts strategy n hands to json.loads, in the order it tries them:
\* 1 the text itself, 2 the first fenced block, 3 every brace-delimited match,
\* 4 the text without its fences, 5 the repaired text.
Candidates(text, n) ==
    CASE n = 1 -> <<text>>
      [] n = 2 -> LET m == FencedBlockFrom(text, 1)
                  IN  IF m.found THEN <<m.s>> ELSE <<>>
      [] n = 3 -> BraceObjectsFrom(text, 1)
      [] n = 4 -> <<StripFences(text)>>
      [] n = 5 -> <<_fix_common_json_issues(text)>>

\* strategy n, as [ok, v]: ok = FALSE is the strategy passing on
Strategy(text, n) == FirstLoadable(Candidates(text, n), 1)

Numbered(attempt, n) == [ok |-> attempt.ok, v |-> attempt.v, n |-> n]

\* the strategies from n on: [ok, v, n] of the first that returns (n = 0: none)
RECURSIVE StrategiesFrom(_, _)
StrategiesFrom(text, n) ==
    IF n > 5 THEN [ok |-> FALSE, v |-> JNull, n |-> 0]
    ELSE OrElse(Numbered(Strategy(text, n), n), StrategiesFrom(text, n + 1))

\* which strategy returns (0: none, and the function returns None)
StrategyUsed(text) == StrategiesFrom(text, 1).n

\* _robust_json_parse(text): the value of the first strategy whose json.loads
\* succeeds, or None
_robust_json_parse(text) == StrategiesFrom(text, 1).v

(***************************************************************************)
(* utils/helpers.py: clean_text and extract_numbers_and_dates.  MatchEnd   *)
(* gives, for a pattern and a start index, the index just past the match   *)
(* Python's re finds there (0: no match at that index).                    *)
(***************************************************************************)
CurrencySymbols == {"$", "€", "£", "¥", "₹"}

\* a character clean_text keeps: [\w\s\.\,\%\$\€\£\¥\₹\-\(\)]
IsKept(c) == IsWordChar(c) \/ IsSpace(c) \/ c \in {".", ",", "%", "-", "(", ")"} \/ c \in CurrencySymbols

\* re.sub of every other character by '', from index i on
KeepOnlyFrom(s, i) == SelectSeq(SubSeq(s, i, Len(s)), IsKept)

clean_text(text) ==
    IF Len(text) = 0 THEN <<>>
    ELSE KeepOnlyFrom(CollapseSpace(Strip(text)), 1)

\* n digits at s[i..i+n-1]
DigitsAt(s, i, n) == \A j \in i..(i + n - 1) : IsDigit(At(s, j))

\* \b at the gap before index i
WordBoundary(s, i) == IsWordChar(At(s, i - 1)) # IsWordChar(At(s, i))

\* index just past the run of (?:,\d{3}) groups starting at i
RECURSIVE ThousandsEnd(_, _)
ThousandsEnd(s, i) == IF At(s, i) = "," /\ DigitsAt(s, i + 1, 3) THEN ThousandsEnd(s, i + 4) ELSE i

\* [\$€£¥₹]\s*\d{1,3}(?:,\d{3})*(?:\.\d{2})?
CurrencyEnd(s, i) ==
    LET q == SkipSpace(s, i + 1)
        e1 == Min(DigitsEnd(s, q), q + 3)
        e2 == ThousandsEnd(s, e1)
    IN  IF At(s, i) \in CurrencySymbols /\ IsDigit(At(s, q))
        THEN IF At(s, e2) = "." /\ DigitsAt(s, e2 + 1, 2) THEN e2 + 3 ELSE e2
        ELSE 0

\* \d+(?:\.\d+)?\s*%
PercentageEnd(s, i) ==
    LET e1 == DigitsEnd(s, i)
        e2 == IF At(s, e1) = "." /\ IsDigit(At(s, e1 + 1)) THEN DigitsEnd(s, e1 + 1) ELSE e1
        q == SkipSpace(s, e2)
    IN  IF IsDigit(At(s, i)) /\ At(s, q) = "%" THEN q + 1 ELSE 0

\* the tail of the number pattern after \d+, with k thousands groups tried
\* first and fewer on backtracking: (?:,\d{3})*(?:\.\d+)?\b
RECURSIVE NumberTail(_, _, _)
NumberTail(s, e1, k) ==
    LET e2 == e1 + 4 * k
        e3 == IF At(s, e2) = "." /\ IsDigit(At(s, e2 + 1)) THEN DigitsEnd(s, e2 + 1) ELSE e2
    IN  IF e3 > e2 /\ WordBoundary(s, e3) THEN e3
        ELSE IF WordBoundary(s, e2) THEN e2
        ELSE IF k = 0 THEN 0
        ELSE NumberTail(s, e1, k - 1)

\* \b\d+(?:,\d{3})*(?:\.\d+)?\b
NumberEnd(s, i) ==
    LET e1 == DigitsEnd(s, i)
    IN  IF IsDigit(At(s, i)) /\ WordBoundary(s, i)
        THEN NumberTail(s, e1, (ThousandsEnd(s, e1) - e1) \div 4)
        ELSE 0

IsDateSep(c) == c \in {"/", "-"}

\* \b\d{a}[/-]\d{b}[/-]\d{c}\b at i
NumericDateAt(s, i, a, b, c) ==
    /\ WordBoundary(s, i)
    /\ DigitsAt(s, i, a) /\ IsDateSep(At(s, i + a))
    /\ DigitsAt(s, i + a + 1, b) /\ IsDateSep(At(s, i + a + b + 1))
    /\ DigitsAt(s, i + a + b + 2, c)
    /\ WordBoundary(s, i + a + b + c + 2)

\* the first of the (a, b, c) of `order` that matches at i: the index past it
RECURSIVE FirstNumericDate(_, _, _, _)
FirstNumericDate(s, i, order, n) ==
    IF n > Len(order) THEN 0
    ELSE IF NumericDateAt(s, i, order[n][1], order[n][2], order[n][3])
         THEN i + order[n][1] + order[n][2] + order[n][3] + 2
    ELSE FirstNumericDate(s, i, order, n + 1)

\* \b\d{1,2}[/-]\d{1,2}[/-]\d{2,4}\b: greedy, so longer repetitions first
Date1End(s, i) ==
    FirstNumericDate(s, i, << <<2,2,4>>, <<2,2,3>>, <<2,2,2>>, <<2,1,4>>, <<2,1,3>>, <<2,1,2>>,
                              <<1,2,4>>, <<1,2,3>>, <<1,2,2>>, <<1,1,4>>, <<1,1,3>>, <<1,1,2>> >>, 1)

\* \b\d{4}[/-]\d{1,2}[/-]\d{1,2}\b
Date2End(s, i) ==
    FirstNumericDate(s, i, << <<4,2,2>>, <<4,2,1>>, <<4,1,2>>, <<4,1,1>> >>, 1)

MonthNames == << <<"j","a","n">>, <<"f","e","b">>, <<"m","a","r">>, <<"a","p","r">>,
                 <<"m","a","y">>, <<"j","u","n">>, <<"j","u","l">>, <<"a","u","g">>,
                 <<"s","e","p">>, <<"o","c","t">>, <<"n","o","v">>, <<"d","e","c">> >>

\* index just past the run of letters starting at i ([a-z]* under re.IGNORECASE)
RECURSIVE LettersEnd(_, _)
LettersEnd(s, i) == IF i <= Len(s) /\ (IsLower(s[i]) \/ IsUpper(s[i])) THEN LettersEnd(s, i + 1) ELSE i

\* (?:Jan|Feb|...|Dec)[a-z]* at i, case-insensitive: the index past it (0: none)
MonthEnd(s, i) ==
    IF i + 2 <= Len(s) /\ Lower(SubSeq(s, i, i + 2)) \in Range(MonthNames)
    THEN LettersEnd(s, i + 3) ELSE 0

\* \s+\d{4}\b at i: the index past it (0: none)
YearEnd(s, i) ==
    LET y == SkipSpace(s, i)
    IN  IF y > i /\ DigitsAt(s, y, 4) /\ WordBoundary(s, y + 4) THEN y + 4 ELSE 0

\* \b(?:Jan|...|Dec)[a-z]*\s+\d{1,2},?\s+\d{4}\b
Date3End(s, i) ==
    LET m == MonthEnd(s, i)
        d == SkipSpace(s, m)
        AfterDay(n) == YearEnd(s, IF At(s, d + n) = "," THEN d + n + 1 ELSE d + n)
    IN  IF ~WordBoundary(s, i) \/ m = 0 \/ d = m THEN 0
        ELSE IF DigitsAt(s, d, 2) /\ AfterDay(2) # 0 THEN AfterDay(2)
        ELSE IF DigitsAt(s, d, 1) /\ AfterDay(1) # 0 THEN AfterDay(1)
        ELSE 0

\* \b\d{1,2}\s+(?:Jan|...|Dec)[a-z]*\s+\d{4}\b
Date4End(s, i) ==
    LET AfterDay(n) == IF SkipSpace(s, i + n) > i + n /\ MonthEnd(s, SkipSpace(s, i + n)) # 0
                       THEN YearEnd(s, MonthEnd(s, SkipSpace(s, i + n))) ELSE 0
    IN  IF ~WordBoundary(s, i) THEN 0
        ELSE IF DigitsAt(s, i, 2) /\ AfterDay(2) # 0 THEN AfterDay(2)
        ELSE IF DigitsAt(s, i, 1) /\ AfterDay(1) # 0 THEN AfterDay(1)
        ELSE 0

MatchEnd(pattern, s, i) ==
    CASE pattern = "currency" -> CurrencyEnd(s, i)
      [] pattern = "percentage" -> PercentageEnd(s, i)
      [] pattern = "number" -> NumberEnd(s, i)
      [] pattern = "date1" -> Date1End(s, i)
      [] pattern = "date2" -> Date2End(s, i)
      [] pattern = "date3" -> Date3End(s, i)
      [] pattern = "date4" -> Date4End(s, i)

\* the first index at or after i where the pattern matches (0: none)
FindNext(pattern, s, i) ==
    LET starts == {j \in i..Len(s) : MatchEnd(pattern, s, j) # 0}
    IN  IF starts = {} THEN 0 ELSE CHOOSE j \in starts : \A k \in starts : j <= k

\* re.findall(pattern, s) from index i on: the matches, left to right
RECURSIVE FindAllFrom(_, _, _)
FindAllFrom(pattern, s, i) ==
    LET j == FindNext(pattern, s, i)
    IN  IF j = 0 THEN <<>>
        ELSE <<SubSeq(s, j, MatchEnd(pattern, s, j) - 1)>>
                 \o FindAllFrom(pattern, s, MatchEnd(pattern, s, j))

Patterns == {"number", "percentage", "currency", "date1", "date2", "date3", "date4"}

\* found: pattern -> its matches; the dates are the four date patterns' matches in turn
Extracted(found) ==
    [numbers |-> found["number"],
     percentages |-> found["percentage"],
     currency |-> found["currency"],
     dates |-> found["date1"] \o found["date2"] \o found["date3"] \o found["date4"]]

extract_numbers_and_dates(text) ==
    IF Len(text) = 0
    THEN [numbers |-> <<>>, percentages |-> <<>>, currency |-> <<>>, dates |-> <<>>]
    ELSE Extracted([pattern \in Patterns |-> FindAllFrom(pattern, text, 1)])

(***************************************************************************)
(* The string literals of the source, as character sequences.              *)
(***************************************************************************)
S_slide_numbers == <<"s","l","i","d","e","_","n","u","m","b","e","r","s">>
S_description == <<"d","e","s","c","r","i","p","t","i","o","n">>
S_severity == <<"s","e","v","e","r","i","t","y">>
S_type == <<"t","y","p","e">>
S_numerical_conflicts == <<"n","u","m","e","r","i","c","a","l","_","c","o","n","f","l","i","c","t","s">>
S_contradictory_statements == <<"c","o","n","t","r","a","d","i","c","t","o","r","y","_","s","t","a","t","e","m","e","n","t","s">>
S_timeline_issues == <<"t","i","m","e","l","i","n","e","_","i","s","s","u","e","s">>
S_logical_inconsistencies == <<"l","o","g","i","c","a","l","_","i","n","c","o","n","s","i","s","t","e","n","c","i","e","s">>
S_intelligence_report == <<"i","n","t","e","l","l","i","g","e","n","c","e","_","r","e","p","o","r","t">>
S_executive_summary == <<"e","x","e","c","u","t","i","v","e","_","s","u","m","m","a","r","y">>
S_summary == <<"s","u","m","m","a","r","y">>
S_inconsistencies_found == <<"i","n","c","o","n","s","i","s","t","e","n","c","i","e","s","_","f","o","u","n","d">>
S_high == <<"h","i","g","h">>
S_medium == <<"m","e","d","i","u","m">>
S_unknown == <<"u","n","k","n","o","w","n">>
S_revenue_conflict == <<"r","e","v","e","n","u","e","_","c","o","n","f","l","i","c","t">>
S_percentage_conflict == <<"p","e","r","c","e","n","t","a","g","e","_","c","o","n","f","l","i","c","t">>
S_quantity_conflict == <<"q","u","a","n","t","i","t","y","_","c","o","n","f","l","i","c","t">>
S_detailed_analysis == <<"d","e","t","a","i","l","e","d","_","a","n","a","l","y","s","i","s">>
S_strategic_recommendations == <<"s","t","r","a","t","e","g","i","c","_","r","e","c","o","m","m","e","n","d","a","t","i","o","n","s">>
S_data_quality_assessment == <<"d","a","t","a","_","q","u","a","l","i","t","y","_","a","s","s","e","s","s","m","e","n","t">>
S_stakeholder_impact_analysis == <<"s","t","a","k","e","h","o","l","d","e","r","_","i","m","p","a","c","t","_","a","n","a","l","y","s","i","s">>
\* detector.py:95
RevenueKeywords == << <<"r","e","v","e","n","u","e">>,
    <<"s","a","l","e","s">>,
    <<"i","n","c","o","m","e">>,
    <<"e","a","r","n","i","n","g","s">> >>
\* detector.py:100
PercentageKeywords == << <<"m","a","r","k","e","t"," ","s","h","a","r","e">>,
    <<"g","r","o","w","t","h">>,
    <<"i","n","c","r","e","a","s","e">>,
    <<"d","e","c","r","e","a","s","e">> >>
\* detector.py:105
QuantityKeywords == << <<"e","m","p","l","o","y","e","e","s">>,
    <<"c","u","s","t","o","m","e","r","s">>,
    <<"u","s","e","r","s">>,
    <<"u","n","i","t","s">> >>
\* extractor.py:199
TitleKeywords == << <<"t","i","t","l","e">>,
    <<"h","e","a","d","i","n","g">>,
    <<"s","l","i","d","e">> >>
\* detector.py:143-164: (pattern1, pattern2, context)
contradiction_patterns == <<
    << <<"h","i","g","h","l","y"," ","c","o","m","p","e","t","i","t","i","v","e">>,
       <<"f","e","w"," ","c","o","m","p","e","t","i","t","o","r","s">>,
       <<"m","a","r","k","e","t"," ","c","o","m","p","e","t","i","t","i","o","n">> >>,
    << <<"g","r","o","w","i","n","g"," ","m","a","r","k","e","t">>,
       <<"d","e","c","l","i","n","i","n","g"," ","m","a","r","k","e","t">>,
       <<"m","a","r","k","e","t"," ","g","r","o","w","t","h">> >>,
    << <<"m","a","r","k","e","t"," ","l","e","a","d","e","r">>,
       <<"s","m","a","l","l"," ","p","l","a","y","e","r">>,
       <<"m","a","r","k","e","t"," ","p","o","s","i","t","i","o","n">> >>,
    << <<"i","n","c","r","e","a","s","i","n","g"," ","r","e","v","e","n","u","e">>,
       <<"d","e","c","r","e","a","s","i","n","g"," ","r","e","v","e","n","u","e">>,
       <<"r","e","v","e","n","u","e"," ","t","r","e","n","d">> >>,
    << <<"p","r","o","f","i","t","a","b","l","e">>,
       <<"u","n","p","r","o","f","i","t","a","b","l","e">>,
       <<"p","r","o","f","i","t","a","b","i","l","i","t","y">> >>,
    << <<"s","u","c","c","e","s","s","f","u","l">>,
       <<"u","n","s","u","c","c","e","s","s","f","u","l">>,
       <<"s","u","c","c","e","s","s">> >>,
    << <<"s","t","r","o","n","g"," ","p","e","r","f","o","r","m","a","n","c","e">>,
       <<"w","e","a","k"," ","p","e","r","f","o","r","m","a","n","c","e">>,
       <<"p","e","r","f","o","r","m","a","n","c","e">> >>,
    << <<"c","o","s","t"," ","r","e","d","u","c","t","i","o","n">>,
       <<"h","e","a","v","y"," ","i","n","v","e","s","t","m","e","n","t">>,
       <<"s","t","r","a","t","e","g","y">> >>,
    << <<"f","o","c","u","s"," ","o","n"," ","e","f","f","i","c","i","e","n","c","y">>,
       <<"e","x","p","a","n","d"," ","r","a","p","i","d","l","y">>,
       <<"a","p","p","r","o","a","c","h">> >>,
    << <<"c","o","n","s","e","r","v","a","t","i","v","e">>,
       <<"a","g","g","r","e","s","s","i","v","e">>,
       <<"s","t","r","a","t","e","g","y">> >>,
    << <<"l","a","u","n","c","h"," ","i","n"," ","2","0","2","4">>,
       <<"l","a","u","n","c","h"," ","i","n"," ","2","0","2","5">>,
       <<"l","a","u","n","c","h"," ","t","i","m","e","l","i","n","e">> >>,
    << <<"p","h","a","s","e"," ","1"," ","c","o","m","p","l","e","t","e">>,
       <<"p","h","a","s","e"," ","1"," ","o","n","g","o","i","n","g">>,
       <<"p","r","o","j","e","c","t"," ","s","t","a","t","u","s">> >>,
    << <<"a","h","e","a","d"," ","o","f"," ","s","c","h","e","d","u","l","e">>,
       <<"b","e","h","i","n","d"," ","s","c","h","e","d","u","l","e">>,
       <<"p","r","o","j","e","c","t"," ","t","i","m","e","l","i","n","e">> >> >>
\* "Conflicting revenue figures: "
RevenuePrefix == <<"C","o","n","f","l","i","c","t","i","n","g"," ","r","e","v","e","n","u","e"," ","f","i","g","u","r","e","s",":"," ">>
\* "Conflicting percentage data: "
PercentagePrefix == <<"C","o","n","f","l","i","c","t","i","n","g"," ","p","e","r","c","e","n","t","a","g","e"," ","d","a","t","a",":"," ">>
\* "Conflicting quantity data: "
QuantityPrefix == <<"C","o","n","f","l","i","c","t","i","n","g"," ","q","u","a","n","t","i","t","y"," ","d","a","t","a",":"," ">>
\* " appears on multiple slides"
ConflictSuffix == <<" ","a","p","p","e","a","r","s"," ","o","n"," ","m","u","l","t","i","p","l","e"," ","s","l","i","d","e","s">>
\* "Multiple dates found across slides - potential timeline conflicts"
TimelineDescription == <<"M","u","l","t","i","p","l","e"," ","d","a","t","e","s"," ","f","o","u","n","d"," ","a","c","r","o","s","s"," ","s","l","i","d","e","s"," ","-"," ","p","o","t","e","n","t","i","a","l"," ","t","i","m","e","l","i","n","e"," ","c","o","n","f","l","i","c","t","s">>
\* "Contradictory "
ContradictoryPrefix == <<"C","o","n","t","r","a","d","i","c","t","o","r","y"," ">>
\* ": '"
ContradictoryMid == <<":"," ","'">>
\* "' vs '"
ContradictoryVs == <<"'"," ","v","s"," ","'">>
\* "'"
ContradictoryEnd == <<"'">>

(***************************************************************************)
(* core/extractor.py.  A slide of the presentation is [shapes, tables]:    *)
(* the text of each shape, and each table as rows of cell texts.           *)
(* _extract_with_ocr returns "" on every path, so OCR never adds text and  *)
(* ocr_used stays False.                                                   *)
(***************************************************************************)
\* the elements of a finite set of integers in ascending order: the
\* iteration order of slides_data, a dict filled in slide order
RECURSIVE Ascending(_)
Ascending(S) ==
    IF S = {} THEN <<>>
    ELSE LET m == CHOOSE x \in S : \A y \in S : x <= y
         IN  <<m>> \o Ascending(S \ {m})

\* [x for x in seq if x], for a sequence of strs
RECURSIVE NonEmpty(_)
NonEmpty(seq) ==
    IF seq = <<>> THEN <<>>
    ELSE IF Len(Head(seq)) > 0 THEN <<Head(seq)>> \o NonEmpty(Tail(seq))
    ELSE NonEmpty(Tail(seq))

\* len(text.split()): the number of maximal runs of non-space characters
TokenCount(s) == Cardinality({i \in 1..Len(s) : ~IsSpace(s[i]) /\ (i = 1 \/ IsSpace(s[i - 1]))})

\* shape.text is set and non-empty: clean_text(shape.text); else ""
_extract_from_shape(shape) == IF Len(shape) > 0 THEN clean_text(shape) ELSE <<>>

\* one row: ' | '.join of the stripped non-empty cells
TableRow(row) == Join(<<" ", "|", " ">>, NonEmpty([i \in 1..Len(row) |-> Strip(row[i])]))

_extract_from_table(table) ==
    Join(<<" ", "|", " ">>, NonEmpty([i \in 1..Len(table) |-> TableRow(table[i])]))

\* a fragment is a title whenever it holds a keyword, however long it is
IsTitle_any_length(text) == ContainsAny(Lower(text), TitleKeywords)

\* len(text.split()) <= 10 and any(word in text_lower for word in [...])
IsTitle(text) == TokenCount(text) <= 10 /\ ContainsAny(Lower(text), TitleKeywords)

\* _categorize_text: the titles, and the body_text, of the fragments
RECURSIVE TitlesOf(_), BodyTextOf(_)
TitlesOf(text) ==
    IF text = <<>> THEN <<>>
    ELSE IF Len(Head(text)) > 0 /\ IsTitle(Head(text)) THEN <<Head(text)>> \o TitlesOf(Tail(text))
    ELSE TitlesOf(Tail(text))
BodyTextOf(text) ==
    IF text = <<>> THEN <<>>
    ELSE IF Len(Head(text)) > 0 /\ ~IsTitle(Head(text)) THEN <<Head(text)>> \o BodyTextOf(Tail(text))
    ELSE BodyTextOf(Tail(text))

\* the record _extract_from_slide returns, from the fragments it collected
SlideData(slide_number, shape_text, table_data, text, extracted) ==
    [slide_number |-> slide_number,
     text |-> text,
     titles |-> TitlesOf(text),
     body_text |-> BodyTextOf(text),
     table_data |-> table_data,
     shape_text |-> shape_text,
     numbers |-> extracted.numbers,
     percentages |-> extracted.percentages,
     currency |-> extracted.currency,
     dates |-> extracted.dates,
     ocr_used |-> FALSE]

\* all_text = ' '.join(slide_data['text']) goes to extract_numbers_and_dates
Categorized(slide_number, shape_text, table_data, text) ==
    SlideData(slide_number, shape_text, table_data, text,
              extract_numbers_and_dates(Join(<<" ">>, text)))

\* text holds the shape fragments, then the table fragments
Collected(slide_number, shape_text, table_data) ==
    Categorized(slide_number, shape_text, table_data, shape_text \o table_data)

_extract_from_slide(slide, slide_number) ==
    Collected(slide_number,
              NonEmpty([i \in 1..Len(slide.shapes) |-> _extract_from_shape(slide.shapes[i])]),
              NonEmpty([i \in 1..Len(slide.tables) |-> _extract_from_table(slide.tables[i])]))

\* an extraction that leaves out the slides on which it found no text
extract_from_presentation_omitting_empty(slides) ==
    [n \in {m \in 1..Len(slides) : _extract_from_slide(slides[m], m).text # <<>>}
        |-> _extract_from_slide(slides[n], n)]

\* extract_from_presentation, the presentation opened: one record per slide
extract_from_presentation(slides) ==
    [n \in 1..Len(slides) |-> _extract_from_slide(slides[n], n)]

(***************************************************************************)
(* core/detector.py: the rule-based scans.  A finding is the dict the      *)
(* source builds, in the JSON value form the AI findings have too.         *)
(***************************************************************************)
Categories == <<"numerical_conflicts", "contradictory_statements", "timeline_issues", "logical_inconsistencies">>

IntList(ns) == JList([i \in 1..Len(ns) |-> JInt(ns[i])])

Finding(slide_numbers, description, severity, type) ==
    JDict(<<S_slide_numbers, S_description, S_severity, S_type>>,
          <<IntList(slide_numbers), JStr(description), JStr(severity), JStr(type)>>)

\* ' '.join(slide_data['text']).lower()
slide_text(slide_data) == Lower(Join(<<" ">>, slide_data.text))

\* a grouping that takes the values of every slide, keyword or not
RECURSIVE GroupingFrom_ungated(_, _, _, _)
GroupingFrom_ungated(slides_data, order, values, keywords) ==
    IF order = <<>> THEN <<>>
    ELSE [i \in 1..Len(values[Head(order)]) |-> [metric |-> values[Head(order)][i], slide_num |-> Head(order)]]
         \o GroupingFrom_ungated(slides_data, Tail(order), values, keywords)

\* the (value, slide) pairs a grouping collects, in the order they are appended:
\* slides in order, and on a slide whose text has a keyword, its values in order
RECURSIVE GroupingFrom(_, _, _, _)
GroupingFrom(slides_data, order, values, keywords) ==
    IF order = <<>> THEN <<>>
    ELSE LET n == Head(order)
             vs == values[n]
         IN  (IF ContainsAny(slide_text(slides_data[n]), keywords)
              THEN [i \in 1..Len(vs) |-> [metric |-> vs[i], slide_num |-> n]]
              ELSE <<>>)
             \o GroupingFrom(slides_data, Tail(order), values, keywords)

\* the keys of a grouping (a defaultdict) in insertion order
RECURSIVE MetricsOf(_, _)
MetricsOf(pairs, seen) ==
    IF pairs = <<>> THEN <<>>
    ELSE IF Head(pairs).metric \in seen THEN MetricsOf(Tail(pairs), seen)
    ELSE <<Head(pairs).metric>> \o MetricsOf(Tail(pairs), seen \cup {Head(pairs).metric})

\* grouping[metric]: the slide numbers appended for the metric
RECURSIVE SlideNumsOf(_, _)
SlideNumsOf(pairs, metric) ==
    IF pairs = <<>> THEN <<>>
    ELSE IF Head(pairs).metric = metric THEN <<Head(pairs).slide_num>> \o SlideNumsOf(Tail(pairs), metric)
    ELSE SlideNumsOf(Tail(pairs), metric)

\* the findings of one grouping with the test len(slide_nums) > 2: a value on
\* two slides is not reported
RECURSIVE ConflictsOf_beyond_two(_, _, _, _, _)
ConflictsOf_beyond_two(pairs, metrics, prefix, severity, type) ==
    IF metrics = <<>> THEN <<>>
    ELSE (IF Len(SlideNumsOf(pairs, Head(metrics))) > 2
          THEN <<Finding(SlideNumsOf(pairs, Head(metrics)),
                         prefix \o Head(metrics) \o ConflictSuffix, severity, type)>>
          ELSE <<>>)
         \o ConflictsOf_beyond_two(pairs, Tail(metrics), prefix, severity, type)

\* the findings of one grouping: a metric with more than one appended slide
RECURSIVE ConflictsOf(_, _, _, _, _)
ConflictsOf(pairs, metrics, prefix, severity, type) ==
    IF metrics = <<>> THEN <<>>
    ELSE (IF Len(SlideNumsOf(pairs, Head(metrics))) > 1
          THEN <<Finding(SlideNumsOf(pairs, Head(metrics)),
                         prefix \o Head(metrics) \o ConflictSuffix, severity, type)>>
          ELSE <<>>)
         \o ConflictsOf(pairs, Tail(metrics), prefix, severity, type)

_detect_numerical_conflicts(slides_data) ==
    LET order == Ascending(DOMAIN slides_data)
        revenue_data == GroupingFrom(slides_data, order, [n \in DOMAIN slides_data |-> slides_data[n].currency], RevenueKeywords)
        percentage_data == GroupingFrom(slides_data, order, [n \in DOMAIN slides_data |-> slides_data[n].percentages], PercentageKeywords)
        quantity_data == GroupingFrom(slides_data, order, [n \in DOMAIN slides_data |-> slides_data[n].numbers], QuantityKeywords)
    IN  ConflictsOf(revenue_data, MetricsOf(revenue_data, {}), RevenuePrefix, S_high, S_revenue_conflict)
        \o ConflictsOf(percentage_data, MetricsOf(percentage_data, {}), PercentagePrefix, S_high, S_percentage_conflict)
        \o ConflictsOf(quantity_data, MetricsOf(quantity_data, {}), QuantityPrefix, S_medium, S_quantity_conflict)

\* [slide_num for slide_num in order if pattern in all_text[slide_num]]
RECURSIVE SlidesWith(_, _, _)
SlidesWith(slides_data, order, pattern) ==
    IF order = <<>> THEN <<>>
    ELSE (IF Contains(slide_text(slides_data[Head(order)]), pattern) THEN <<Head(order)>> ELSE <<>>)
         \o SlidesWith(slides_data, Tail(order), pattern)

\* the scan with the slides of the second phrase listed before those of the first
RECURSIVE ContradictionsFrom_second_first(_, _)
ContradictionsFrom_second_first(slides_data, i) ==
    IF i > Len(contradiction_patterns) THEN <<>>
    ELSE LET pattern1 == contradiction_patterns[i][1]
             pattern2 == contradiction_patterns[i][2]
             context == contradiction_patterns[i][3]
             slides_with_pattern1 == SlidesWith(slides_data, Ascending(DOMAIN slides_data), pattern1)
             slides_with_pattern2 == SlidesWith(slides_data, Ascending(DOMAIN slides_data), pattern2)
         IN  (IF slides_with_pattern1 # <<>> /\ slides_with_pattern2 # <<>>
              THEN <<Finding(slides_with_pattern2 \o slides_with_pattern1,
                             ContradictoryPrefix \o context \o ContradictoryMid \o pattern1
                                 \o ContradictoryVs \o pattern2 \o ContradictoryEnd,
                             S_high, S_contradictory_statements)>>
              ELSE <<>>)
             \o ContradictionsFrom_second_first(slides_data, i + 1)

RECURSIVE ContradictionsFrom(_, _)
ContradictionsFrom(slides_data, i) ==
    IF i > Len(contradiction_patterns) THEN <<>>
    ELSE LET pattern1 == contradiction_patterns[i][1]
             pattern2 == contradiction_patterns[i][2]
             context == contradiction_patterns[i][3]
             slides_with_pattern1 == SlidesWith(slides_data, Ascending(DOMAIN slides_data), pattern1)
             slides_with_pattern2 == SlidesWith(slides_data, Ascending(DOMAIN slides_data), pattern2)
         IN  (IF slides_with_pattern1 # <<>> /\ slides_with_pattern2 # <<>>
              THEN <<Finding(slides_with_pattern1 \o slides_with_pattern2,
                             ContradictoryPrefix \o context \o ContradictoryMid \o pattern1
                                 \o ContradictoryVs \o pattern2 \o ContradictoryEnd,
                             S_high, S_contradictory_statements)>>
              ELSE <<>>)
             \o ContradictionsFrom(slides_data, i + 1)

_detect_contradictory_statements(slides_data) == ContradictionsFrom(slides_data, 1)

\* the timeline scan reporting as soon as one slide carries a date
_detect_timeline_issues_any_date(slides_data) ==
    LET all_dates == {n \in DOMAIN slides_data : slides_data[n].dates # <<>>}
    IN  IF Cardinality(all_dates) > 0
        THEN <<Finding(Ascending(all_dates), TimelineDescription, S_medium, S_timeline_issues)>>
        ELSE <<>>

_detect_timeline_issues(slides_data) ==
    LET all_dates == {n \in DOMAIN slides_data : slides_data[n].dates # <<>>}
    IN  IF Cardinality(all_dates) > 1
        THEN <<Finding(Ascending(all_dates), TimelineDescription, S_medium, S_timeline_issues)>>
        ELSE <<>>

\* a category -> list mapping with the four categories
CategoryMap(numerical, contradictory, timeline, logical) ==
    [numerical_conflicts |-> numerical, contradictory_statements |-> contradictory,
     timeline_issues |-> timeline, logical_inconsistencies |-> logical]

_get_empty_inconsistencies == CategoryMap(JList(<<>>), JList(<<>>), JList(<<>>), JList(<<>>))

_rule_based_detection(slides_data) ==
    CategoryMap(JList(_detect_numerical_conflicts(slides_data)),
                JList(_detect_contradictory_statements(slides_data)),
                JList(_detect_timeline_issues(slides_data)),
                JList(<<>>))

(***************************************************************************)
(* core/analyzer.py: the oracle call and the interpretation of its answer. *)
(* An exchange with the oracle is [transport, candidates, text]:           *)
(*   transport   "ok", or the way requests.post / raise_for_status /       *)
(*               response.json() failed;                                   *)
(*   candidates  "absent" (no 'candidates' key), "empty" (an empty list),  *)
(*               "no_text" (a candidate without content.parts[0].text) or  *)
(*               "text";                                                   *)
(*   text        the characters of the first candidate's text.             *)
(***************************************************************************)
S_error == <<"e","r","r","o","r">>
S_inconsistencies == <<"i","n","c","o","n","s","i","s","t","e","n","c","i","e","s">>
S_analysis_timestamp == <<"a","n","a","l","y","s","i","s","_","t","i","m","e","s","t","a","m","p">>
S_slides_analyzed == <<"s","l","i","d","e","s","_","a","n","a","l","y","z","e","d">>
S_analysis_type == <<"a","n","a","l","y","s","i","s","_","t","y","p","e">>
S_intelligence == <<"i","n","t","e","l","l","i","g","e","n","c","e">>
S_legacy == <<"l","e","g","a","c","y">>

_get_empty_intelligence_report ==
    JDict(<<<<"e","x","e","c","u","t","i","v","e","_","s","u","m","m","a","r","y">>,
    <<"d","e","t","a","i","l","e","d","_","a","n","a","l","y","s","i","s">>,
    <<"s","t","r","a","t","e","g","i","c","_","r","e","c","o","m","m","e","n","d","a","t","i","o","n","s">>,
    <<"d","a","t","a","_","q","u","a","l","i","t","y","_","a","s","s","e","s","s","m","e","n","t">>,
    <<"s","t","a","k","e","h","o","l","d","e","r","_","i","m","p","a","c","t","_","a","n","a","l","y","s","i","s">>>>,
     <<JDict(<<<<"o","v","e","r","a","l","l","_","r","i","s","k","_","l","e","v","e","l">>,
    <<"d","a","t","a","_","i","n","t","e","g","r","i","t","y","_","s","c","o","r","e">>,
    <<"s","t","r","a","t","e","g","i","c","_","c","o","h","e","r","e","n","c","e","_","s","c","o","r","e">>,
    <<"s","t","a","k","e","h","o","l","d","e","r","_","c","o","n","f","i","d","e","n","c","e","_","i","m","p","a","c","t">>,
    <<"c","r","i","t","i","c","a","l","_","f","i","n","d","i","n","g","s","_","c","o","u","n","t">>,
    <<"b","u","s","i","n","e","s","s","_","i","m","p","a","c","t","_","a","s","s","e","s","s","m","e","n","t">>>>,
     <<JStr(<<"l","o","w">>),JStr(<<"8","/","1","0">>),JStr(<<"8","/","1","0">>),JStr(<<"l","o","w">>),JInt(0),JStr(<<"N","o"," ","s","i","g","n","i","f","i","c","a","n","t"," ","i","s","s","u","e","s"," ","d","e","t","e","c","t","e","d">>)>>),JList(<<>>),JList(<<>>),JDict(<<<<"r","e","l","i","a","b","i","l","i","t","y","_","s","c","o","r","e">>,
    <<"c","o","n","s","i","s","t","e","n","c","y","_","s","c","o","r","e">>,
    <<"c","o","m","p","l","e","t","e","n","e","s","s","_","s","c","o","r","e">>,
    <<"a","c","c","u","r","a","c","y","_","i","n","d","i","c","a","t","o","r","s">>,
    <<"d","a","t","a","_","g","a","p","s">>,
    <<"v","e","r","i","f","i","c","a","t","i","o","n","_","n","e","e","d","s">>>>,
     <<JStr(<<"8","/","1","0">>),JStr(<<"8","/","1","0">>),JStr(<<"8","/","1","0">>),JList(<<>>),JList(<<>>),JList(<<>>)>>),JDict(<<<<"i","n","v","e","s","t","o","r","_","c","o","n","f","i","d","e","n","c","e">>,
    <<"e","m","p","l","o","y","e","e","_","t","r","u","s","t">>,
    <<"c","u","s","t","o","m","e","r","_","p","e","r","c","e","p","t","i","o","n">>,
    <<"r","e","g","u","l","a","t","o","r","y","_","r","i","s","k">>>>,
     <<JStr(<<"h","i","g","h">>),JStr(<<"h","i","g","h">>),JStr(<<"h","i","g","h">>),JStr(<<"l","o","w">>)>>)>>)

_extract_intelligence_from_text(text) == _get_empty_intelligence_report

\* _call_gemini_api with its except branch returning the response instead of
\* re-raising: a failed call then looks like an answer without candidates
_call_gemini_api_swallowing(exchange) ==
    [raised |-> FALSE,
     response |-> [candidates |-> exchange.candidates, text |-> exchange.text]]

\* requests.post + raise_for_status + response.json(): the exception is logged and re-raised
_call_gemini_api(exchange) ==
    [raised |-> exchange.transport # "ok",
     response |-> [candidates |-> exchange.candidates, text |-> exchange.text]]

\* the four legacy lists read from the top level of the parsed object
LegacyShape(parsed_data) ==
    JDict(<<S_numerical_conflicts, S_contradictory_statements,
            S_timeline_issues, S_logical_inconsistencies>>,
          <<Get(parsed_data, S_numerical_conflicts, JList(<<>>)),
            Get(parsed_data, S_contradictory_statements, JList(<<>>)),
            Get(parsed_data, S_timeline_issues, JList(<<>>)),
            Get(parsed_data, S_logical_inconsistencies, JList(<<>>))>>)

\* the branches of _parse_analysis_response on the parsed value.  A value that
\* is truthy but not a dict raises ('in' on a number, [] with a str index, .get
\* on a list or a str) and the except branch returns the empty report.
Interpret(parsed_data, text) ==
    IF ~Truthy(parsed_data) THEN _extract_intelligence_from_text(text)
    ELSE IF ~IsDict(parsed_data) THEN _get_empty_intelligence_report
    ELSE IF HasKey(parsed_data, S_intelligence_report)
         THEN Item(parsed_data, S_intelligence_report)
         ELSE LegacyShape(parsed_data)

\* The whole body sits in try/except Exception, so a candidate without
\* content.parts[0].text ends in the empty intelligence report too.
_parse_analysis_response(response) ==
    IF response.candidates \in {"absent", "empty"} THEN _get_empty_intelligence_report
    ELSE IF response.candidates = "no_text" THEN _get_empty_intelligence_report
    ELSE Interpret(_robust_json_parse(response.text), response.text)

\* time.time(): a float the run never reads back
Timestamp == JFloat(<<"t">>, TRUE)
\* str(e) of a caught exception: the run only tests the presence of the key
ErrorMessage == JStr(<<"f","a","i","l","e","d">>)

\* the dict analyze_inconsistencies returns for a parsed report
Tagged(intelligence_report, slides_analyzed) ==
    IF IsDict(intelligence_report) /\ HasKey(intelligence_report, S_executive_summary)
    THEN JDict(<<S_intelligence_report, S_analysis_timestamp, S_slides_analyzed, S_analysis_type>>,
               <<intelligence_report, Timestamp, slides_analyzed, JStr(S_intelligence)>>)
    ELSE JDict(<<S_inconsistencies, S_analysis_timestamp, S_slides_analyzed, S_analysis_type>>,
               <<intelligence_report, Timestamp, slides_analyzed, JStr(S_legacy)>>)

\* api_key: whether the analyzer has a key.  An exception of _call_gemini_api
\* is caught and becomes {'error': str(e)}.
analyze_inconsistencies(api_key, slides_data, exchange) ==
    IF ~api_key THEN JDict(<<S_error>>, <<ErrorMessage>>)
    ELSE IF _call_gemini_api(exchange).raised THEN JDict(<<S_error>>, <<ErrorMessage>>)
    ELSE Tagged(_parse_analysis_response(_call_gemini_api(exchange).response),
                JInt(Cardinality(DOMAIN slides_data)))

(***************************************************************************)
(* core/detector.py: reconciliation of the rule-based and the AI findings. *)
(* An operation that can raise returns [raised, value]; value is read only *)
(* when raised is FALSE.                                                   *)
(*                                                                         *)
(* Findings of the model carry as slide_numbers an int list, a str-free    *)
(* scalar or nothing, and as severity a str, None, a list or nothing;      *)
(* bool and float slide numbers or severities (which Python identifies     *)
(* with equal ints in tuple and dict keys) are outside the model.          *)
(***************************************************************************)
Raised == [raised |-> TRUE, value |-> JNull]
Returned(v) == [raised |-> FALSE, value |-> v]

\* sorted(ns) for a sequence of int values
RECURSIVE InsertSorted(_, _)
InsertSorted(sorted, v) ==
    IF sorted = <<>> THEN <<v>>
    ELSE IF v.n < sorted[1].n THEN <<v>> \o sorted
    ELSE <<sorted[1]>> \o InsertSorted(Tail(sorted), v)

RECURSIVE SortedFrom(_, _, _)
SortedFrom(items, i, acc) ==
    IF i > Len(items) THEN acc ELSE SortedFrom(items, i + 1, InsertSorted(acc, items[i]))

Sorted(items) == SortedFrom(items, 1, <<>>)

Hashable(v) == v.t \notin {"list", "dict"}

\* sorted(elements) and the hashing of the tuple: an element that is a list or a
\* dict raises at the latest when the key is hashed; with two or more elements,
\* None is never orderable and str is not orderable against a number
SlideNumsRaise(elements) ==
    LET types == {elements[i].t : i \in 1..Len(elements)}
    IN  CASE types \cap {"list", "dict"} # {} -> TRUE
          [] types \cap {"list", "dict"} = {} /\ Len(elements) <= 1 -> FALSE
          [] types \cap {"list", "dict"} = {} /\ Len(elements) > 1 /\ "NoneType" \in types -> TRUE
          [] Len(elements) > 1 /\ "str" \in types /\ types \cap {"int", "float", "bool"} # {}
                 /\ types \cap {"list", "dict", "NoneType"} = {} -> TRUE
          [] Len(elements) > 1 /\ types = {"int"} -> FALSE

\* item.get / sorted / .lower() raise on: an item that is not a dict,
\* slide_numbers that is a number or None, a description that is not a str
KeyRaises(item) ==
    \/ ~IsDict(item)
    \/ LET slide_numbers == Get(item, S_slide_numbers, JList(<<>>))
       IN  CASE slide_numbers.t \in {"NoneType", "int", "float", "bool"} -> TRUE
             [] IsList(slide_numbers) -> SlideNumsRaise(slide_numbers.c)
    \/ ~IsStr(Get(item, S_description, JStr(<<>>)))

\* key = (tuple(sorted(slide_numbers)), description.lower()[:50])
DedupKey(item) ==
    LET slide_numbers == Get(item, S_slide_numbers, JList(<<>>)).c
        description == Lower(Get(item, S_description, JStr(<<>>)).s)
    IN  [slide_nums |-> IF Len(slide_numbers) > 1 THEN Sorted(slide_numbers) ELSE slide_numbers,
         description |-> Slice(description, 1, Min(50, Len(description)))]

RECURSIVE DeduplicateFrom(_, _, _, _)
DeduplicateFrom(items, i, seen_combinations, unique_items) ==
    IF i > Len(items) THEN unique_items
    ELSE LET key == DedupKey(items[i])
         IN  IF key \notin seen_combinations
             THEN DeduplicateFrom(items, i + 1, seen_combinations \cup {key},
                                  Append(unique_items, items[i]))
             ELSE DeduplicateFrom(items, i + 1, seen_combinations, unique_items)

\* items: a sequence of JSON values
_deduplicate_items(items) ==
    IF \E i \in 1..Len(items) : KeyRaises(items[i]) THEN Raised
    ELSE Returned(JList(DeduplicateFrom(items, 1, {}, <<>>)))

\* ai_analysis: the dict analyze_inconsistencies returned, or {}
_extract_ai_results(ai_analysis) ==
    IF HasKey(ai_analysis, S_error) THEN Returned(_get_empty_inconsistencies)
    ELSE LET inconsistencies == Get(ai_analysis, S_inconsistencies, JDict(<<>>, <<>>))
         IN  IF ~IsDict(inconsistencies) THEN Raised
             ELSE [raised |-> FALSE,
                   value |-> CategoryMap(Get(inconsistencies, S_numerical_conflicts, JList(<<>>)),
                                         Get(inconsistencies, S_contradictory_statements, JList(<<>>)),
                                         Get(inconsistencies, S_timeline_issues, JList(<<>>)),
                                         Get(inconsistencies, S_logical_inconsistencies, JList(<<>>)))]

\* all_items = ai_items + rule_items: the AI findings take precedence
CombineCategory_ai_first(rule_items, ai_items) ==
    IF ~IsList(ai_items) THEN Raised ELSE _deduplicate_items(ai_items.c \o rule_items.c)

\* combined[category] = all_items: the concatenation is never deduplicated
CombineCategory_undeduplicated(rule_items, ai_items) ==
    IF ~IsList(ai_items) THEN Raised ELSE Returned(JList(rule_items.c \o ai_items.c))

\* rule_items + ai_items, then _deduplicate_items: list + non-list raises
CombineCategory(rule_items, ai_items) ==
    IF ~IsList(ai_items) THEN Raised ELSE _deduplicate_items(rule_items.c \o ai_items.c)

_combine_results(rule_based, ai_based) ==
    LET combined == [category \in Range(Categories) |->
                        CombineCategory(rule_based[category], ai_based[category])]
    IN  IF \E category \in Range(Categories) : combined[category].raised
        THEN [raised |-> TRUE, value |-> _get_empty_inconsistencies]
        ELSE [raised |-> FALSE,
              value |-> CategoryMap(combined.numerical_conflicts.value,
                                    combined.contradictory_statements.value,
                                    combined.timeline_issues.value,
                                    combined.logical_inconsistencies.value)]

\* inconsistencies.values(), in the insertion order of the four categories
_flatten_inconsistencies(inconsistencies) ==
    inconsistencies.numerical_conflicts.c \o inconsistencies.contradictory_statements.c
        \o inconsistencies.timeline_issues.c \o inconsistencies.logical_inconsistencies.c

\* severity_counts[item['severity']] += 1 for the items that have the key only:
\* a finding without a severity is counted under no label
RECURSIVE SeverityCountsFrom_keyed(_, _, _)
SeverityCountsFrom_keyed(items, i, severity_counts) ==
    IF i > Len(items) THEN severity_counts
    ELSE IF ~HasKey(items[i], S_severity)
    THEN SeverityCountsFrom_keyed(items, i + 1, severity_counts)
    ELSE LET severity == Item(items[i], S_severity)
         IN  IF \E j \in 1..Len(severity_counts) : severity_counts[j].severity = severity
             THEN SeverityCountsFrom_keyed(items, i + 1,
                      [j \in 1..Len(severity_counts) |->
                          IF severity_counts[j].severity = severity
                          THEN [severity |-> severity, count |-> severity_counts[j].count + 1]
                          ELSE severity_counts[j]])
             ELSE SeverityCountsFrom_keyed(items, i + 1,
                      Append(severity_counts, [severity |-> severity, count |-> 1]))

\* severity_counts[severity] += 1 over the items, keys in first-seen order
RECURSIVE SeverityCountsFrom(_, _, _)
SeverityCountsFrom(items, i, severity_counts) ==
    IF i > Len(items) THEN severity_counts
    ELSE LET severity == Get(items[i], S_severity, JStr(S_unknown))
         IN  IF \E j \in 1..Len(severity_counts) : severity_counts[j].severity = severity
             THEN SeverityCountsFrom(items, i + 1,
                      [j \in 1..Len(severity_counts) |->
                          IF severity_counts[j].severity = severity
                          THEN [severity |-> severity, count |-> severity_counts[j].count + 1]
                          ELSE severity_counts[j]])
             ELSE SeverityCountsFrom(items, i + 1,
                      Append(severity_counts, [severity |-> severity, count |-> 1]))

\* category_counts built from the findings (a count per finding's category):
\* a category without findings gets no entry
_calculate_summary_counting_findings(inconsistencies, slides_data) ==
    LET items == _flatten_inconsistencies(inconsistencies)
    IN  IF \E i \in 1..Len(items) : ~Hashable(Get(items[i], S_severity, JStr(S_unknown)))
        THEN [raised |-> TRUE, value |-> <<>>]
        ELSE [raised |-> FALSE,
              value |-> [total_slides |-> Cardinality(DOMAIN slides_data),
                         slides_analyzed |-> Cardinality(DOMAIN slides_data),
                         inconsistencies_found |-> Len(items),
                         severity_breakdown |-> SeverityCountsFrom(items, 1, <<>>),
                         category_breakdown |->
                             [category \in {c \in Range(Categories) : inconsistencies[c].c # <<>>}
                                 |-> Len(inconsistencies[category].c)]]]

\* a severity that is a list or a dict cannot be a defaultdict key
_calculate_summary(inconsistencies, slides_data) ==
    LET items == _flatten_inconsistencies(inconsistencies)
    IN  IF \E i \in 1..Len(items) : ~Hashable(Get(items[i], S_severity, JStr(S_unknown)))
        THEN [raised |-> TRUE, value |-> <<>>]
        ELSE [raised |-> FALSE,
              value |-> [total_slides |-> Cardinality(DOMAIN slides_data),
                         slides_analyzed |-> Cardinality(DOMAIN slides_data),
                         inconsistencies_found |-> Len(items),
                         severity_breakdown |-> SeverityCountsFrom(items, 1, <<>>),
                         category_breakdown |->
                             [category \in Range(Categories) |-> Len(inconsistencies[category].c)]]]

NoResult ==
    [summary |-> <<>>, inconsistencies |-> _get_empty_inconsistencies,
     rule_based_count |-> 0, ai_based_count |-> 0]

\* the result with rule_based_count taken from the merged lists
WithSummary_counting_merged(rule_based_results, ai_results, combined_results, summary) ==
    IF summary.raised THEN [raised |-> TRUE, value |-> NoResult]
    ELSE [raised |-> FALSE,
          value |-> [summary |-> summary.value,
                     inconsistencies |-> combined_results,
                     rule_based_count |-> Len(_flatten_inconsistencies(combined_results)),
                     ai_based_count |-> Len(_flatten_inconsistencies(ai_results))]]

\* detect_inconsistencies after the rule-based scan, step by step; each step
\* can raise, and then nothing is returned
WithSummary(rule_based_results, ai_results, combined_results, summary) ==
    IF summary.raised THEN [raised |-> TRUE, value |-> NoResult]
    ELSE [raised |-> FALSE,
          value |-> [summary |-> summary.value,
                     inconsistencies |-> combined_results,
                     rule_based_count |-> Len(_flatten_inconsistencies(rule_based_results)),
                     ai_based_count |-> Len(_flatten_inconsistencies(ai_results))]]

WithCombined(rule_based_results, ai_results, combined_results, slides_data) ==
    IF combined_results.raised THEN [raised |-> TRUE, value |-> NoResult]
    ELSE WithSummary(rule_based_results, ai_results, combined_results.value,
                    _calculate_summary(combined_results.value, slides_data))

WithAiResults(rule_based_results, ai_results, slides_data) ==
    IF ai_results.raised THEN [raised |-> TRUE, value |-> NoResult]
    ELSE WithCombined(rule_based_results, ai_results.value,
                  _combine_results(rule_based_results, ai_results.value), slides_data)

WithRuleBased(rule_based_results, slides_data, ai_analysis) ==
    WithAiResults(rule_based_results, _extract_ai_results(ai_analysis), slides_data)

\* [raised, value]: value is the dict with summary, inconsistencies and the two counts
detect_inconsistencies(slides_data, ai_analysis) ==
    WithRuleBased(_rule_based_detection(slides_data), slides_data, ai_analysis)

(***************************************************************************)
(* core/output.py: format_results.  Every formatter builds its text inside *)
(* try/except Exception and returns an "Error formatting ..." text when    *)
(* building raised, so format_results always returns a str.  The model     *)
(* keeps which formatter ran and whether it ended in its except branch.    *)
(* results is [kind, detection, report]: the dict detect_inconsistencies   *)
(* returned, or the intelligence report taken from the oracle's answer.    *)
(***************************************************************************)
S_overall_risk_level == <<"o","v","e","r","a","l","l","_","r","i","s","k","_","l","e","v","e","l">>
S_stakeholder_confidence_impact == <<"s","t","a","k","e","h","o","l","d","e","r","_","c","o","n","f","i","d","e","n","c","e","_","i","m","p","a","c","t">>
S_category == <<"c","a","t","e","g","o","r","y">>
S_slides == <<"s","l","i","d","e","s">>
S_recommended_actions == <<"r","e","c","o","m","m","e","n","d","e","d","_","a","c","t","i","o","n","s">>
S_priority == <<"p","r","i","o","r","i","t","y">>
S_accuracy_indicators == <<"a","c","c","u","r","a","c","y","_","i","n","d","i","c","a","t","o","r","s">>
S_data_gaps == <<"d","a","t","a","_","g","a","p","s">>
S_investor_confidence == <<"i","n","v","e","s","t","o","r","_","c","o","n","f","i","d","e","n","c","e">>
S_employee_trust == <<"e","m","p","l","o","y","e","e","_","t","r","u","s","t">>
S_customer_perception == <<"c","u","s","t","o","m","e","r","_","p","e","r","c","e","p","t","i","o","n">>
S_regulatory_risk == <<"r","e","g","u","l","a","t","o","r","y","_","r","i","s","k">>

NoReport == JNull
DetectionResult(value) == [kind |-> "DetectionResult", detection |-> value, report |-> NoReport]
IntelligenceReport(report) == [kind |-> "IntelligenceReport", detection |-> NoResult, report |-> report]
NoResults == [kind |-> "none", detection |-> NoResult, report |-> NoReport]

\* key in results
ResultsHasKey(results, key) ==
    IF results.kind = "DetectionResult"
    THEN key \in {S_summary, S_inconsistencies,
                  <<"r","u","l","e","_","b","a","s","e","d","_","c","o","u","n","t">>,
                  <<"a","i","_","b","a","s","e","d","_","c","o","u","n","t">>}
    ELSE HasKey(results.report, key)

\* d.get(key, 'unknown').title() raises unless d is a dict and the value a str
TitleRaises(d, key) == ~IsDict(d) \/ ~IsStr(Get(d, key, JStr(S_unknown)))

\* for x in v / map(str, v): a number, a bool or None is not iterable
Iterable(v) == v.t \in {"list", "str", "dict"}

\* _format_markdown / _format_text on a detection result: severity.title() on the
\* keys of severity_breakdown (and on each item's severity) needs a str
LegacyRaises(detection, output_format) ==
    /\ output_format \in {"markdown", "text"}
    /\ \E i \in 1..Len(detection.summary.severity_breakdown) :
           ~IsStr(detection.summary.severity_breakdown[i].severity)

\* one entry of detailed_analysis
AnalysisRaises(analysis) ==
    \/ TitleRaises(analysis, S_category)
    \/ TitleRaises(analysis, S_severity)
    \/ ~Iterable(Get(analysis, S_slides, JList(<<>>)))
    \/ LET recommendations == Get(analysis, S_recommended_actions, JList(<<>>))
       IN  Truthy(recommendations) /\ ~Iterable(recommendations)

\* detailed_analysis, when truthy, is iterated with .get on each element: a
\* str yields characters and a dict yields keys, and neither has .get
DetailedRaises(detailed_analysis) ==
    /\ Truthy(detailed_analysis)
    /\ \/ ~IsList(detailed_analysis)
       \/ \E i \in 1..Len(detailed_analysis.c) : AnalysisRaises(detailed_analysis.c[i])

\* one entry of strategic_recommendations
StrategicRaises(rec) == TitleRaises(rec, S_priority)

\* strategic_recommendations, iterated the same way
RecommendationsRaise(strategic_recs) ==
    /\ Truthy(strategic_recs)
    /\ \/ ~IsList(strategic_recs)
       \/ \E i \in 1..Len(strategic_recs.c) : StrategicRaises(strategic_recs.c[i])

\* _format_intelligence_markdown / _format_intelligence_text
IntelligenceRaises(report, output_format) ==
    /\ output_format \in {"markdown", "text"}
    /\ LET summary == Get(report, S_executive_summary, JDict(<<>>, <<>>))
           data_quality == Get(report, S_data_quality_assessment, JDict(<<>>, <<>>))
           stakeholder_impact == Get(report, S_stakeholder_impact_analysis, JDict(<<>>, <<>>))
       IN  \/ TitleRaises(summary, S_overall_risk_level)
           \/ TitleRaises(summary, S_stakeholder_confidence_impact)
           \/ DetailedRaises(Get(report, S_detailed_analysis, JList(<<>>)))
           \/ RecommendationsRaise(Get(report, S_strategic_recommendations, JList(<<>>)))
           \/ /\ Truthy(data_quality)
              /\ \/ ~IsDict(data_quality)
                 \/ /\ output_format = "markdown"
                    /\ \E key \in {S_accuracy_indicators, S_data_gaps} :
                           LET v == Get(data_quality, key, JList(<<>>))
                           IN  Truthy(v) /\ ~Iterable(v)
           \/ /\ Truthy(stakeholder_impact)
              /\ \/ TitleRaises(stakeholder_impact, S_investor_confidence)
                 \/ TitleRaises(stakeholder_impact, S_employee_trust)
                 \/ TitleRaises(stakeholder_impact, S_customer_perception)
                 \/ TitleRaises(stakeholder_impact, S_regulatory_risk)

\* a renderer without the legacy branch: every result goes to
\* _format_intelligence_report
format_results_intelligence_only(results, output_format) ==
    [formatter |-> "intelligence", output_format |-> output_format,
     error |-> IntelligenceRaises(results.report, output_format)]

\* what format_results returns: the formatter that built the text, and whether
\* the text is that formatter's "Error formatting" message
format_results(results, output_format) ==
    IF ResultsHasKey(results, S_executive_summary)
    THEN [formatter |-> "intelligence", output_format |-> output_format,
          error |-> IntelligenceRaises(results.report, output_format)]
    ELSE [formatter |-> "legacy", output_format |-> output_format,
          error |-> CASE results.kind = "DetectionResult" ->
                             LegacyRaises(results.detection, output_format)]

(***************************************************************************)
(* The inputs of a run: presentations (a slide is [shapes, tables]) and    *)
(* the answers of the oracle.                                              *)
(***************************************************************************)
SlideRevenue == [shapes |-> <<<<"R","e","v","e","n","u","e"," ","i","n","c","r","e","a","s","e","d",
    " ","t","o"," ","$","5","0","0",",","0","0","0">>>>, tables |-> <<>>]
SlideTotalRevenue == [shapes |-> <<<<"T","o","t","a","l"," ","r","e","v","e","n","u","e",":"," ",
    "$","5","0","0",",","0","0","0">>>>, tables |-> <<>>]
SlideSalesTwice == [shapes |-> <<<<"S","a","l","e","s"," ","$","5","0","0"," ","a","n","d"," ","$",
    "5","0","0">>>>, tables |-> <<>>]
SlideCompetitive == [shapes |-> <<<<"w","e"," ","a","r","e"," ","i","n"," ","a"," ","h","i","g","h",
    "l","y"," ","c","o","m","p","e","t","i","t","i","v","e"," ","m","a","r","k","e",
    "t">>>>, tables |-> <<>>]
SlideFewCompetitors == [shapes |-> <<<<"t","h","e","r","e"," ","a","r","e"," ","f","e","w"," ","c",
    "o","m","p","e","t","i","t","o","r","s"," ","i","n"," ","t","h","i","s"," ","s","p","a","c",
    "e">>>>, tables |-> <<>>]
SlideContested == [shapes |-> <<<<"H","i","g","h","l","y"," ","c","o","m","p","e","t","i","t","i",
    "v","e"," ","b","u","t"," ","f","e","w"," ","c","o","m","p","e","t","i","t","o","r","s">>>>,
    tables |-> <<>>]
SlideGrowth == [shapes |-> <<<<"G","r","o","w","t","h"," ","2","5","%"," ","o","n"," ","1","2","-",
    "0","5","-","2","0","2","4">>>>, tables |-> <<>>]
SlideShare == [shapes |-> <<<<"m","a","r","k","e","t"," ","s","h","a","r","e"," ","2","5","%">>,
    <<"1",",","2","0","0"," ","u","s","e","r","s">>>>, tables |-> <<>>]
SlideCustomers == [shapes |-> <<<<"1",",","2","0","0"," ","c","u","s","t","o","m","e","r","s"," ",
    "b","y"," ","J","a","n"," ","5",","," ","2","0","2","4">>>>, tables |-> <<>>]
SlideBlank == [shapes |-> <<<<" "," ">>>>, tables |-> <<>>]
SlidePrice == [shapes |-> <<<<"P","r","i","c","e",":"," ","$","5","0","0",",","0","0","0">>>>,
    tables |-> <<>>]
\* 'Title Slide', 'no slide is as it is to me or to us' (eleven words),
\* 'Agenda', 'HEADING' and 'Title Slide' once more
SlideTitled == [shapes |-> <<
    <<"T","i","t","l","e"," ","S","l","i","d","e">>,
    <<"n","o"," ","s","l","i","d","e"," ","i","s"," ","a","s"," ","i","t"," ","i","s"," ","t","o"," ","m","e"," ","o","r"," ","t","o"," ","u","s">>,
    <<"A","g","e","n","d","a">>,
    <<"H","E","A","D","I","N","G">>,
    <<"T","i","t","l","e"," ","S","l","i","d","e">>>>,
    tables |-> <<>>]
\* two currency values of 22 characters that differ in the last one
SlideLongFigures == [shapes |-> <<
    <<"S","a","l","e","s"," ","$","1",",","0","0","0",",","0","0","0",",","0","0","0",",","0",
      "0","0",",","0","0","1"," ","o","r"," ","$","1",",","0","0","0",",","0","0","0",",","0",
      "0","0",",","0","0","0",",","0","0","2">>>>,
    tables |-> <<>>]
SlidePlain == [shapes |-> <<<<"p","l","a","i","n">>>>, tables |-> <<>>]

Presentations ==
    {<<>>,
     <<SlidePlain>>,
     <<SlideTitled>>,
     <<SlideLongFigures, SlideLongFigures>>,
     <<SlideSalesTwice>>,
     <<SlideRevenue, SlideTotalRevenue>>,
     <<SlideRevenue, SlidePlain, SlideTotalRevenue>>,
     <<SlideRevenue, SlidePrice, SlideTotalRevenue>>,
     <<SlideCompetitive, SlideFewCompetitors, SlideGrowth>>,
     <<SlideFewCompetitors, SlideContested>>,
     <<SlideBlank, SlideGrowth>>,
     <<SlideGrowth, SlideShare, SlideCustomers>>}

\* I cannot help with that.
TextProse ==
    <<"I"," ","c","a","n","n","o","t"," ","h","e","l","p"," ","w","i","t","h"," ","t","h","a","t",
      ".">>
\* {}
TextEmptyObject ==
    <<"{","}">>
\* [1]
TextArray ==
    <<"[","1","]">>
\* {"intelligence_report": "x"}
TextReportNotObject ==
    <<"{","\"","i","n","t","e","l","l","i","g","e","n","c","e","_","r","e","p","o","r","t","\"",":",
      " ","\"","x","\"","}">>
\* {"intelligence_report": {"detailed_analysis": []}}
TextReportNoSummary ==
    <<"{","\"","i","n","t","e","l","l","i","g","e","n","c","e","_","r","e","p","o","r","t","\"",":",
      " ","{","\"","d","e","t","a","i","l","e","d","_","a","n","a","l","y","s","i","s","\"",":"," ",
      "[","]","}","}">>
\* {"intelligence_report": {"executive_summary": {"overall_risk_level": "high"}, "summary": {"inconsistencies_found": 2}}}
TextReport ==
    <<"{","\"","i","n","t","e","l","l","i","g","e","n","c","e","_","r","e","p","o","r","t","\"",":",
      " ","{","\"","e","x","e","c","u","t","i","v","e","_","s","u","m","m","a","r","y","\"",":"," ",
      "{","\"","o","v","e","r","a","l","l","_","r","i","s","k","_","l","e","v","e","l","\"",":"," ",
      "\"","h","i","g","h","\"","}",","," ","\"","s","u","m","m","a","r","y","\"",":"," ","{","\"",
      "i","n","c","o","n","s","i","s","t","e","n","c","i","e","s","_","f","o","u","n","d","\"",":",
      " ","2","}","}","}">>
\* {"intelligence_report": {"executive_summary": {}, "summary": "x"}}
TextReportBadSummary ==
    <<"{","\"","i","n","t","e","l","l","i","g","e","n","c","e","_","r","e","p","o","r","t","\"",":",
      " ","{","\"","e","x","e","c","u","t","i","v","e","_","s","u","m","m","a","r","y","\"",":"," ",
      "{","}",","," ","\"","s","u","m","m","a","r","y","\"",":"," ","\"","x","\"","}","}">>
\* {"intelligence_report": {"executive_summary": 5}}
TextReportBadExecutive ==
    <<"{","\"","i","n","t","e","l","l","i","g","e","n","c","e","_","r","e","p","o","r","t","\"",":",
      " ","{","\"","e","x","e","c","u","t","i","v","e","_","s","u","m","m","a","r","y","\"",":"," ",
      "5","}","}">>
\* {"numerical_conflicts": 5}
TextCategoryNotList ==
    <<"{","\"","n","u","m","e","r","i","c","a","l","_","c","o","n","f","l","i","c","t","s","\"",":",
      " ","5","}">>
\* {"timeline_issues": [1]}
TextItemNotObject ==
    <<"{","\"","t","i","m","e","l","i","n","e","_","i","s","s","u","e","s","\"",":"," ","[","1","]",
      "}">>
\* {"numerical_conflicts": [{"slide_numbers": [2, 1], "description": "CONFLICTING REVENUE FIGURES: $500,000 APPEARS ON MULTIPLE SLIDES", "severity": "low"}, {"slide_numbers": [1], "description": "Margin unclear"}]}
TextLegacy ==
    <<"{","\"","n","u","m","e","r","i","c","a","l","_","c","o","n","f","l","i","c","t","s","\"",":",
      " ","[","{","\"","s","l","i","d","e","_","n","u","m","b","e","r","s","\"",":"," ","[","2",",",
      " ","1","]",","," ","\"","d","e","s","c","r","i","p","t","i","o","n","\"",":"," ","\"","C",
      "O","N","F","L","I","C","T","I","N","G"," ","R","E","V","E","N","U","E"," ","F","I","G","U",
      "R","E","S",":"," ","$","5","0","0",",","0","0","0"," ","A","P","P","E","A","R","S"," ","O",
      "N"," ","M","U","L","T","I","P","L","E"," ","S","L","I","D","E","S","\"",","," ","\"","s","e",
      "v","e","r","i","t","y","\"",":"," ","\"","l","o","w","\"","}",","," ","{","\"","s","l","i",
      "d","e","_","n","u","m","b","e","r","s","\"",":"," ","[","1","]",","," ","\"","d","e","s","c",
      "r","i","p","t","i","o","n","\"",":"," ","\"","M","a","r","g","i","n"," ","u","n","c","l","e",
      "a","r","\"","}","]","}">>
\* {"a": 1}
TextLegacyEmpty ==
    <<"{","\"","a","\"",":"," ","1","}">>
\* ```json\n{"timeline_issues": []}\n```
TextFenced ==
    <<Backtick,Backtick,Backtick,"j","s","o","n","\n","{","\"","t","i","m","e","l","i","n","e","_",
      "i","s","s","u","e","s","\"",":"," ","[","]","}","\n",Backtick,Backtick,Backtick>>
\* {"timeline_issues": [],}
TextTrailingComma ==
    <<"{","\"","t","i","m","e","l","i","n","e","_","i","s","s","u","e","s","\"",":"," ","[","]",",",
      "}">>
\* Here: {"timeline_issues": []} done
TextEmbedded ==
    <<"H","e","r","e",":"," ","{","\"","t","i","m","e","l","i","n","e","_","i","s","s","u","e","s",
      "\"",":"," ","[","]","}"," ","d","o","n","e">>
\* {"logical_inconsistencies": [{"description": "d", "severity": ["a"]}]}
TextSeverityList ==
    <<"{","\"","l","o","g","i","c","a","l","_","i","n","c","o","n","s","i","s","t","e","n","c","i",
      "e","s","\"",":"," ","[","{","\"","d","e","s","c","r","i","p","t","i","o","n","\"",":"," ",
      "\"","d","\"",","," ","\"","s","e","v","e","r","i","t","y","\"",":"," ","[","\"","a","\"","]",
      "}","]","}">>
\* {"logical_inconsistencies": [{"slide_numbers": [1], "description": "d", "severity": null}]}
TextSeverityNull ==
    <<"{","\"","l","o","g","i","c","a","l","_","i","n","c","o","n","s","i","s","t","e","n","c","i",
      "e","s","\"",":"," ","[","{","\"","s","l","i","d","e","_","n","u","m","b","e","r","s","\"",
      ":"," ","[","1","]",","," ","\"","d","e","s","c","r","i","p","t","i","o","n","\"",":"," ",
      "\"","d","\"",","," ","\"","s","e","v","e","r","i","t","y","\"",":"," ","n","u","l","l","}",
      "]","}">>

OracleTexts ==
    {TextProse,
     TextEmptyObject,
     TextArray,
     TextReportNotObject,
     TextReportNoSummary,
     TextReport,
     TextReportBadSummary,
     TextReportBadExecutive,
     TextCategoryNotList,
     TextItemNotObject,
     TextLegacy,
     TextLegacyEmpty,
     TextFenced,
     TextTrailingComma,
     TextEmbedded,
     TextSeverityList,
     TextSeverityNull}

Exchange(transport, candidates, text) ==
    [transport |-> transport, candidates |-> candidates, text |-> text]

\* requests.post raised, raise_for_status raised on a non-2xx status, or
\* response.json() raised on a body that is not JSON
FailedExchanges ==
    {Exchange(transport, "absent", <<>>) :
        transport \in {"connection_error", "http_error", "invalid_body"}}

Exchanges ==
    FailedExchanges
        \cup {Exchange("ok", candidates, <<>>) : candidates \in {"absent", "empty", "no_text"}}
        \cup {Exchange("ok", "text", text) : text \in OracleTexts}

(***************************************************************************)
(* slide_sage.py main(): one run, step by step.                            *)
(*   pc                  where main is                                     *)
(*   args                the parsed command line: filename stands for what *)
(*                       the path names ("pptx", "missing", "directory",   *)
(*                       "not_pptx"); start_slide / end_slide are 0 when   *)
(*                       the option is absent (main tests them with `or`,  *)
(*                       so 0 and None behave alike)                       *)
(*   env                 whether python-pptx imports, and whether          *)
(*                       --api-key or GEMINI_API_KEY gives a key           *)
(*   presentation        the slides of the file, once it was opened        *)
(*   slides_data         slide number -> extracted record                  *)
(*   exchange, api_calls the oracle's answer to this run, and the number   *)
(*                       of requests.post calls made                       *)
(*   ai_analysis         what analyze_inconsistencies returned             *)
(*   rule_based_results, detect_calls                                      *)
(*                       the scan results inside detect_inconsistencies,   *)
(*                       and the number of times it was called             *)
(*   results             what main hands to the renderer                   *)
(*   printed             the texts written to stdout, in order             *)
(*   exit_code           the status of sys.exit (-1 while running)         *)
(* rc_*  belong to the reconciliation specification further down.          *)
(* jp_*  belong to the parse-chain specification further down.             *)
(***************************************************************************)
VARIABLES pc, args, env, presentation, slides_data, exchange, api_calls, ai_analysis,
          rule_based_results, detect_calls, results, printed, exit_code,
          rc_pc, rc_rule, rc_ai, rc_combined, rc_summary, rc_ids,
          jp_pc, jp_base, jp_form, jp_text, jp_strategy, jp_tried, jp_parsed, jp_report

vars == <<pc, args, env, presentation, slides_data, exchange, api_calls, ai_analysis,
          rule_based_results, detect_calls, results, printed, exit_code,
          rc_pc, rc_rule, rc_ai, rc_combined, rc_summary, rc_ids,
          jp_pc, jp_base, jp_form, jp_text, jp_strategy, jp_tried, jp_parsed, jp_report>>

run_vars == <<pc, args, env, presentation, slides_data, exchange, api_calls, ai_analysis,
              rule_based_results, detect_calls, results, printed, exit_code>>

rc_vars == <<rc_pc, rc_rule, rc_ai, rc_combined, rc_summary, rc_ids>>

jp_vars == <<jp_pc, jp_base, jp_form, jp_text, jp_strategy, jp_tried, jp_parsed, jp_report>>

\* the largest --start-slide / --end-slide of the model
MaxSlideArg == 2

OutputFormats == {"yaml", "markdown", "text"}

NoExchange == Exchange("none", "absent", <<>>)
NoAnalysis == JNull
NoSummary ==
    [total_slides |-> 0, slides_analyzed |-> 0, inconsistencies_found |-> 0,
     severity_breakdown |-> <<>>,
     category_breakdown |-> [category \in Range(Categories) |-> 0]]

\* the texts main prints
ReportOutput(formatted) ==
    [kind |-> "report", formatter |-> formatted.formatter,
     output_format |-> formatted.output_format, error |-> formatted.error]
format_error(output_format) ==
    [kind |-> "error", formatter |-> "format_error",
     output_format |-> output_format, error |-> FALSE]
InterruptedOutput ==
    [kind |-> "interrupted", formatter |-> "none", output_format |-> "text", error |-> FALSE]

RunIdle ==
    /\ pc = "idle"
    /\ args = [filename |-> "pptx", output_format |-> "yaml", start_slide |-> 0, end_slide |-> 0]
    /\ env = [pptx_available |-> TRUE, api_key |-> TRUE]
    /\ presentation = <<>>
    /\ slides_data = <<>>
    /\ exchange = NoExchange
    /\ api_calls = 0
    /\ ai_analysis = NoAnalysis
    /\ rule_based_results = _get_empty_inconsistencies
    /\ detect_calls = 0
    /\ results = NoResults
    /\ printed = <<>>
    /\ exit_code = -1

\* no list object in any category
NoLists == CategoryMap(0, 0, 0, 0)

\* the identities of the list objects the mappings of ids hold
LiveLists(ids) ==
    {ids[mapping][category] : mapping \in DOMAIN ids, category \in Range(Categories)} \ {0}

\* four list objects allocated while those of live exist
FreshLists(live) ==
    LET top == IF live = {} THEN 0 ELSE CHOOSE n \in live : \A m \in live : m <= n
    IN  CategoryMap(top + 1, top + 2, top + 3, top + 4)

RcIdle ==
    /\ rc_pc = "idle"
    /\ rc_rule = _get_empty_inconsistencies
    /\ rc_ai = _get_empty_inconsistencies
    /\ rc_combined = _get_empty_inconsistencies
    /\ rc_summary = NoSummary
    /\ rc_ids = [rule |-> NoLists, ai |-> NoLists, combined |-> NoLists]

JpIdle ==
    /\ jp_pc = "idle"
    /\ jp_base = <<>>
    /\ jp_form = "plain"
    /\ jp_text = <<>>
    /\ jp_strategy = 1
    /\ jp_tried = <<>>
    /\ jp_parsed = JNull
    /\ jp_report = JNull

Init ==
    /\ pc = "validate"
    /\ args \in [filename : {"pptx", "missing", "directory", "not_pptx"},
                 output_format : OutputFormats,
                 start_slide : 0..MaxSlideArg,
                 end_slide : 0..MaxSlideArg]
    /\ env \in [pptx_available : BOOLEAN, api_key : BOOLEAN]
    /\ presentation = <<>>
    /\ slides_data = <<>>
    /\ exchange = NoExchange
    /\ api_calls = 0
    /\ ai_analysis = NoAnalysis
    /\ rule_based_results = _get_empty_inconsistencies
    /\ detect_calls = 0
    /\ results = NoResults
    /\ printed = <<>>
    /\ exit_code = -1
    /\ RcIdle
    /\ JpIdle

\* an except branch of main, or an early exit: print format_error(...), sys.exit(1)
ExitWithError ==
    /\ printed' = Append(printed, format_error(args.output_format))
    /\ exit_code' = 1
    /\ pc' = "done"

\* validate_file_path: FileNotFoundError or ValueError go to main's handlers
validate_file_path(filename) == filename = "pptx"

ValidateFilePath ==
    /\ pc = "validate"
    /\ IF validate_file_path(args.filename)
       THEN /\ pc' = "components"
            /\ UNCHANGED <<printed, exit_code>>
       ELSE ExitWithError
    /\ UNCHANGED <<args, env, presentation, slides_data, exchange, api_calls, ai_analysis,
                   rule_based_results, detect_calls, results, rc_vars, jp_vars>>

\* extractor.is_available() and analyzer.api_key
CheckComponents ==
    /\ pc = "components"
    /\ IF env.pptx_available /\ env.api_key
       THEN /\ pc' = "extract"
            /\ UNCHANGED <<printed, exit_code>>
       ELSE ExitWithError
    /\ UNCHANGED <<args, env, presentation, slides_data, exchange, api_calls, ai_analysis,
                   rule_based_results, detect_calls, results, rc_vars, jp_vars>>

\* extract_from_presentation: {} when the file cannot be opened as a presentation
Extract ==
    /\ pc = "extract"
    /\ \E readable \in BOOLEAN, slides \in Presentations :
          /\ readable \/ slides = <<>>
          /\ presentation' = slides
          /\ slides_data' = IF readable THEN extract_from_presentation(slides) ELSE <<>>
    /\ IF slides_data' # <<>>
       THEN /\ pc' = "filter"
            /\ UNCHANGED <<printed, exit_code>>
       ELSE ExitWithError
    /\ UNCHANGED <<args, env, exchange, api_calls, ai_analysis,
                   rule_based_results, detect_calls, results, rc_vars, jp_vars>>


\* max(slides_data.keys())
MaxKey(data) == CHOOSE n \in DOMAIN data : \A m \in DOMAIN data : m <= n

\* the slide range with the test start <= slide_num < end: the end slide is left out
filtered_slides_before_end(data, start_slide, end_slide) ==
    IF start_slide # 0 \/ end_slide # 0
    THEN LET start == IF start_slide # 0 THEN start_slide ELSE 1
             end == IF end_slide # 0 THEN end_slide ELSE MaxKey(data)
         IN  [slide_num \in {n \in DOMAIN data : start <= n /\ n < end} |-> data[slide_num]]
    ELSE data

\* the slide range of main: applied when either option is given
filtered_slides(data, start_slide, end_slide) ==
    IF start_slide # 0 \/ end_slide # 0
    THEN LET start == IF start_slide # 0 THEN start_slide ELSE 1
             end == IF end_slide # 0 THEN end_slide ELSE MaxKey(data)
         IN  [slide_num \in {n \in DOMAIN data : start <= n /\ n <= end} |-> data[slide_num]]
    ELSE data

FilterSlides ==
    /\ pc = "filter"
    /\ slides_data' = filtered_slides(slides_data, args.start_slide, args.end_slide)
    /\ pc' = "analyze"
    /\ UNCHANGED <<args, env, presentation, exchange, api_calls, ai_analysis, rule_based_results,
                   detect_calls, results, printed, exit_code, rc_vars, jp_vars>>

\* an analysis step that posts again after a transport failure
AnalyzeRetrying ==
    /\ pc = "analyze"
    /\ \E answer \in Exchanges :
          /\ exchange' = answer
          /\ ai_analysis' = analyze_inconsistencies(env.api_key, slides_data, answer)
          /\ pc' = IF answer.transport # "ok" /\ api_calls < 2 THEN "analyze" ELSE "reconcile"
    /\ api_calls' = api_calls + 1
    /\ UNCHANGED <<args, env, presentation, slides_data, rule_based_results, detect_calls, results,
                   printed, exit_code, rc_vars, jp_vars>>

\* analyzer.analyze_inconsistencies(slides_data): one requests.post
Analyze ==
    /\ pc = "analyze"
    /\ \E answer \in Exchanges :
          /\ exchange' = answer
          /\ ai_analysis' = analyze_inconsistencies(env.api_key, slides_data, answer)
    /\ api_calls' = api_calls + 1
    /\ pc' = "reconcile"
    /\ UNCHANGED <<args, env, presentation, slides_data, rule_based_results, detect_calls, results,
                   printed, exit_code, rc_vars, jp_vars>>

\* the argument main passes to detect_inconsistencies: {} after an error
DetectArgument(analysis) ==
    IF HasKey(analysis, S_error) THEN JDict(<<>>, <<>>) ELSE analysis

\* the outcome of detect_inconsistencies in main: its exception ends the run
Detected(detected) ==
    IF detected.raised
    THEN /\ ExitWithError
         /\ UNCHANGED results
    ELSE /\ results' = DetectionResult(detected.value)
         /\ pc' = "render"
         /\ UNCHANGED <<printed, exit_code>>

\* main calling detect_inconsistencies before it looks at analysis_type
ReconcileDetectingFirst ==
    /\ pc = "reconcile"
    /\ detect_calls' = detect_calls + 1
    /\ rule_based_results' = _rule_based_detection(slides_data)
    /\ IF ~HasKey(ai_analysis, S_error)
            /\ Get(ai_analysis, S_analysis_type, JNull) = JStr(S_intelligence)
       THEN /\ results' = IntelligenceReport(Item(ai_analysis, S_intelligence_report))
            /\ pc' = "render"
            /\ UNCHANGED <<printed, exit_code>>
       ELSE Detected(WithRuleBased(rule_based_results', slides_data, DetectArgument(ai_analysis)))
    /\ UNCHANGED <<args, env, presentation, slides_data, exchange, api_calls, ai_analysis, rc_vars, jp_vars>>

\* main, lines 161-174: the intelligence report is taken as it is, everything
\* else goes through detect_inconsistencies, whose exception ends the run
Reconcile ==
    /\ pc = "reconcile"
    /\ IF ~HasKey(ai_analysis, S_error)
            /\ Get(ai_analysis, S_analysis_type, JNull) = JStr(S_intelligence)
       THEN /\ results' = IntelligenceReport(Item(ai_analysis, S_intelligence_report))
            /\ pc' = "render"
            /\ UNCHANGED <<rule_based_results, detect_calls, printed, exit_code>>
       ELSE /\ detect_calls' = detect_calls + 1
            /\ rule_based_results' = _rule_based_detection(slides_data)
            /\ Detected(WithRuleBased(rule_based_results', slides_data, DetectArgument(ai_analysis)))
    /\ UNCHANGED <<args, env, presentation, slides_data, exchange, api_calls, ai_analysis, rc_vars, jp_vars>>

\* output = formatter.format_results(...); print(output)
Render ==
    /\ pc = "render"
    /\ printed' = Append(printed, ReportOutput(format_results(results, args.output_format)))
    /\ pc' = "exit"
    /\ UNCHANGED <<args, env, presentation, slides_data, exchange, api_calls, ai_analysis,
                   rule_based_results, detect_calls, results, exit_code, rc_vars, jp_vars>>

\* summary = results.get('summary', {}); summary.get('inconsistencies_found', 0) > 0
\* raises when summary is not a dict or the count is not a number
SummaryRaises(res) ==
    /\ res.kind = "IntelligenceReport"
    /\ LET summary == Get(res.report, S_summary, JDict(<<>>, <<>>))
       IN  \/ ~IsDict(summary)
           \/ Get(summary, S_inconsistencies_found, JInt(0)).t \notin {"int", "float", "bool"}

\* both branches of the final test call sys.exit(0)
Exit ==
    /\ pc = "exit"
    /\ IF SummaryRaises(results)
       THEN ExitWithError
       ELSE /\ exit_code' = 0
            /\ pc' = "done"
            /\ UNCHANGED printed
    /\ UNCHANGED <<args, env, presentation, slides_data, exchange, api_calls, ai_analysis,
                   rule_based_results, detect_calls, results, rc_vars, jp_vars>>

\* except KeyboardInterrupt, anywhere inside the try block
Interrupt ==
    /\ pc \notin {"done", "idle"}
    /\ printed' = Append(printed, InterruptedOutput)
    /\ exit_code' = 130
    /\ pc' = "done"
    /\ UNCHANGED <<args, env, presentation, slides_data, exchange, api_calls, ai_analysis,
                   rule_based_results, detect_calls, results, rc_vars, jp_vars>>

Next ==
    \/ ValidateFilePath
    \/ CheckComponents
    \/ Extract
    \/ FilterSlides
    \/ Analyze
    \/ Reconcile
    \/ Render
    \/ Exit
    \/ Interrupt

Spec == Init /\ [][Next]_vars

(***************************************************************************)
(* The reconciliation engine on its own: _combine_results and              *)
(* _calculate_summary applied to finding lists drawn from a pool.          *)
(*   rc_rule, rc_ai   the rule-based and the AI category -> list mappings  *)
(*   rc_combined      what _combine_results returned                       *)
(*   rc_summary       what _calculate_summary returned                     *)
(*   rc_pc            "input", "combined", "summarized"                    *)
(*   rc_ids           the identities of the list objects the three         *)
(*                    mappings hold, per category (0: no list yet)         *)
(* FindingB and FindingB2 share a dedup key: the same slides in another    *)
(* order, and descriptions that agree, case aside, on their first 50       *)
(* characters.  FindingC has no severity.  FindingA and FindingA2 name the *)
(* same slides, FindingA2 one of them twice.                               *)
(***************************************************************************)
\* the longest rule-based and AI lists of the numerical category
MaxRuleFindings == 2
MaxAiFindings == 2

FindingA ==
    JDict(<<S_slide_numbers, S_description, S_severity>>,
          <<IntList(<<1, 2>>), JStr(<<"R","e","v","e","n","u","e"," ","m","i","s","m","a","t","c",
               "h">>), JStr(S_high)>>)
\* Launch date differs between the roadmap and the summary slide
FindingB ==
    JDict(<<S_slide_numbers, S_description, S_severity>>,
          <<IntList(<<2, 3>>),
            JStr(<<"L","a","u","n","c","h"," ","d","a","t","e"," ","d","i","f","f","e","r","s"," ",
                 "b","e","t","w","e","e","n"," ","t","h","e"," ","r","o","a","d","m","a","p"," ",
                 "a","n","d"," ","t","h","e"," ","s","u","m","m","a","r","y"," ","s","l","i","d",
                 "e">>),
            JStr(S_medium)>>)
\* LAUNCH DATE DIFFERS BETWEEN THE ROADMAP AND THE SU (SEE APPENDIX)
FindingB2 ==
    JDict(<<S_slide_numbers, S_description, S_severity>>,
          <<IntList(<<3, 2>>),
            JStr(<<"L","A","U","N","C","H"," ","D","A","T","E"," ","D","I","F","F","E","R","S"," ",
                 "B","E","T","W","E","E","N"," ","T","H","E"," ","R","O","A","D","M","A","P"," ",
                 "A","N","D"," ","T","H","E"," ","S","U"," ","(","S","E","E"," ","A","P","P","E",
                 "N","D","I","X",")">>),
            JStr(<<"l","o","w">>)>>)
FindingC ==
    JDict(<<S_slide_numbers, S_description>>,
          <<IntList(<<1>>), JStr(<<"G","r","o","w","t","h"," ","c","l","a","i","m">>)>>)
\* FindingA with slide 1 named twice, as the numerical scan names a slide
\* that shows a value twice
FindingA2 ==
    JDict(<<S_slide_numbers, S_description, S_severity>>,
          <<IntList(<<1, 1, 2>>), JStr(<<"R","e","v","e","n","u","e"," ","m","i","s","m","a","t","c",
               "h">>), JStr(S_high)>>)

FindingPool == {FindingA, FindingA2, FindingB, FindingB2, FindingC}

\* the lists of at most max findings of the pool
FindingLists(max) == UNION {[1..k -> FindingPool] : k \in 0..max}

InitReconcile ==
    /\ RunIdle
    /\ rc_pc = "input"
    /\ \E numerical \in FindingLists(MaxRuleFindings), timeline \in {<<>>, <<FindingB>>} :
           rc_rule = CategoryMap(JList(numerical), JList(<<>>), JList(timeline), JList(<<>>))
    /\ \E numerical \in FindingLists(MaxAiFindings) :
           rc_ai = CategoryMap(JList(numerical), JList(<<>>), JList(<<>>), JList(<<>>))
    /\ rc_combined = _get_empty_inconsistencies
    /\ rc_summary = NoSummary
    /\ rc_ids = [rule |-> CategoryMap(1, 2, 3, 4), ai |-> CategoryMap(5, 6, 7, 8),
                 combined |-> NoLists]
    /\ JpIdle

\* all_items = rule_items; all_items.extend(ai_items): the concatenation is
\* built in the rule-based list
CombineResults_in_place ==
    /\ rc_pc = "input"
    /\ ~_combine_results(rc_rule, rc_ai).raised
    /\ rc_combined' = _combine_results(rc_rule, rc_ai).value
    /\ rc_rule' = [category \in Range(Categories) |->
                       JList(rc_rule[category].c \o rc_ai[category].c)]
    /\ rc_ids' = [rc_ids EXCEPT !.combined = FreshLists(LiveLists(rc_ids))]
    /\ rc_pc' = "combined"
    /\ UNCHANGED <<rc_ai, rc_summary, run_vars, jp_vars>>

\* combined_results = self._combine_results(rule_based_results, ai_results):
\* rule_items + ai_items is a new list and so is unique_items, the list
\* _deduplicate_items fills and returns; neither argument is assigned to
CombineResults ==
    /\ rc_pc = "input"
    /\ ~_combine_results(rc_rule, rc_ai).raised
    /\ rc_combined' = _combine_results(rc_rule, rc_ai).value
    /\ rc_ids' = [rc_ids EXCEPT !.combined = FreshLists(LiveLists(rc_ids))]
    /\ rc_pc' = "combined"
    /\ UNCHANGED <<rc_rule, rc_ai, rc_summary, run_vars, jp_vars>>

\* summary = self._calculate_summary(combined_results, slides_data)
CalculateSummary ==
    /\ rc_pc = "combined"
    /\ ~_calculate_summary(rc_combined, slides_data).raised
    /\ rc_summary' = _calculate_summary(rc_combined, slides_data).value
    /\ rc_pc' = "summarized"
    /\ UNCHANGED <<rc_rule, rc_ai, rc_combined, rc_ids, run_vars, jp_vars>>

NextReconcile ==
    \/ CombineResults
    \/ CalculateSummary

SpecReconcile == InitReconcile /\ [][NextReconcile]_vars

(***************************************************************************)
(* core/analyzer.py, _parse_analysis_response on an answer with text: the  *)
(* parse chain one strategy at a time, then the reading of the parsed      *)
(* value.  The answer is a JSON text (jp_base) in one of five forms.       *)
(*   jp_pc        "parse", "interpret", "done" ("idle": not in use)        *)
(*   jp_text      the text of the answer                                   *)
(*   jp_strategy  the strategy _robust_json_parse is about to try          *)
(*   jp_tried     the strategies it has tried, in order                    *)
(*   jp_parsed    parsed_data                                              *)
(*   jp_report    what _parse_analysis_response returns                    *)
(***************************************************************************)
\* {"timeline_issues": []}
TextTimelineEmpty ==
    <<"{","\"","t","i","m","e","l","i","n","e","_","i","s","s","u","e","s","\"",":"," ","[","]",
      "}">>
\* {"timeline_issues": [{"slide_numbers": [2], "description": "Slide 2: late"}]}
TextSlideColon ==
    <<"{","\"","t","i","m","e","l","i","n","e","_","i","s","s","u","e","s","\"",":"," ","[","{",
      "\"","s","l","i","d","e","_","n","u","m","b","e","r","s","\"",":"," ","[","2","]",","," ",
      "\"","d","e","s","c","r","i","p","t","i","o","n","\"",":"," ","\"","S","l","i","d","e"," ",
      "2",":"," ","l","a","t","e","\"","}","]","}">>

JsonBases ==
    {TextProse, TextArray, TextEmptyObject, TextLegacyEmpty, TextTimelineEmpty, TextSlideColon,
     TextReport, TextReportNoSummary, TextCategoryNotList, TextItemNotObject, TextSeverityNull}

Forms == {"plain", "fenced", "fenced_bare", "trailing_comma", "embedded"}

\* the base text as the oracle may send it: as it is, in a ```json or a bare
\* ``` fence, with a comma before its closing brace or bracket, or in prose
InForm(form, base) ==
    CASE form = "plain" -> base
      [] form = "fenced" -> Fence \o <<"j","s","o","n","\n">> \o base \o <<"\n">> \o Fence
      [] form = "fenced_bare" -> Fence \o <<"\n">> \o base \o <<"\n">> \o Fence
      [] form = "trailing_comma" ->
            IF Len(base) > 2 /\ base[Len(base)] \in {"}", "]"}
            THEN SubSeq(base, 1, Len(base) - 1) \o <<",", base[Len(base)]>>
            ELSE base
      [] form = "embedded" -> <<"H","e","r","e",":"," ">> \o base \o <<" ","d","o","n","e">>

InitParse ==
    /\ RunIdle
    /\ RcIdle
    /\ jp_pc = "parse"
    /\ jp_base \in JsonBases
    /\ jp_form \in Forms
    /\ jp_text = InForm(jp_form, jp_base)
    /\ jp_strategy = 1
    /\ jp_tried = <<>>
    /\ jp_parsed = JNull
    /\ jp_report = JNull

\* a try block that does not return on success: the chain goes on to the
\* next strategy and a later value replaces the earlier one
TryStrategy_continuing(n) ==
    /\ jp_pc = "parse"
    /\ jp_strategy = n
    /\ jp_tried' = Append(jp_tried, n)
    /\ jp_parsed' = IF Strategy(jp_text, n).ok THEN Strategy(jp_text, n).v ELSE jp_parsed
    /\ IF n = 5
       THEN /\ jp_pc' = "interpret"
            /\ UNCHANGED jp_strategy
       ELSE /\ jp_strategy' = n + 1
            /\ UNCHANGED jp_pc
    /\ UNCHANGED <<jp_base, jp_form, jp_text, jp_report, run_vars, rc_vars>>

\* one try block of _robust_json_parse: return the value json.loads gave, or
\* pass on to the next strategy; after the fifth, return None
TryStrategy(n) ==
    /\ jp_pc = "parse"
    /\ jp_strategy = n
    /\ jp_tried' = Append(jp_tried, n)
    /\ IF Strategy(jp_text, n).ok
       THEN /\ jp_parsed' = Strategy(jp_text, n).v
            /\ jp_pc' = "interpret"
            /\ UNCHANGED jp_strategy
       ELSE IF n = 5
       THEN /\ jp_parsed' = JNull
            /\ jp_pc' = "interpret"
            /\ UNCHANGED jp_strategy
       ELSE /\ jp_strategy' = n + 1
            /\ UNCHANGED <<jp_pc, jp_parsed>>
    /\ UNCHANGED <<jp_base, jp_form, jp_text, jp_report, run_vars, rc_vars>>

\* the rest of _parse_analysis_response: 'if parsed_data:' and its branches
InterpretParsed ==
    /\ jp_pc = "interpret"
    /\ jp_report' = Interpret(jp_parsed, jp_text)
    /\ jp_pc' = "done"
    /\ UNCHANGED <<jp_base, jp_form, jp_text, jp_strategy, jp_tried, jp_parsed, run_vars, rc_vars>>

NextParse ==
    \/ \E n \in 1..5 : TryStrategy(n)
    \/ InterpretParsed

SpecParse == InitParse /\ [][NextParse]_vars



(***************************************************************************)
(* The claims of the specification, each as a formula over the runs of     *)
(* Spec (one run of main) or of SpecReconcile (the reconciliation engine). *)
(***************************************************************************)
\* the oracle has answered, and main is past analyze_inconsistencies
Analyzed == api_calls = 1 /\ pc \in {"reconcile", "render", "exit", "done"}

\* main has a result to render, has rendered it, or has exited after rendering
Rendering == pc \in {"render", "exit"} \/ (pc = "done" /\ exit_code \in {0, 1} /\ results # NoResults)

\* results is a DetectionResult that holds the rule-based findings and nothing else
RuleBasedAlone ==
    /\ results.kind = "DetectionResult"
    /\ results.detection.ai_based_count = 0
    /\ results.detection.rule_based_count = Len(_flatten_inconsistencies(rule_based_results))
    /\ results.detection.inconsistencies
           = _combine_results(rule_based_results, _get_empty_inconsistencies).value

\* C1: when the oracle call fails in transport or with a non-2xx status,
\* analyze_inconsistencies returns a dict with an 'error' key, the run never
\* ends in main's exception handler (exit code 1), and what it renders and
\* exits 0 with is a DetectionResult of the rule-based findings alone, with
\* ai_based_count = 0.  (Exit code 130 is the user's Ctrl-C.)
C1_TransportFailureFallsBack ==
    (Analyzed /\ exchange \in FailedExchanges) =>
        /\ HasKey(ai_analysis, S_error)
        /\ pc = "done" => exit_code \in {0, 130}
        /\ (pc \in {"render", "exit"} \/ (pc = "done" /\ exit_code = 0)) => RuleBasedAlone

\* a run whose oracle call failed has exited 0 with rule-based findings
C1_Witness ==
    /\ exchange \in FailedExchanges
    /\ pc = "done"
    /\ exit_code = 0
    /\ results.kind = "DetectionResult"
    /\ results.detection.rule_based_count > 0
    /\ Len(printed) = 1
    /\ printed[1].kind = "report"


\* the oracle answered, but without candidates or with a text none of the
\* five strategies of _robust_json_parse can load
Unparseable(answer) ==
    /\ answer.transport = "ok"
    /\ \/ answer.candidates \in {"absent", "empty"}
       \/ answer.candidates = "text" /\ StrategyUsed(answer.text) = 0

\* C2: when the oracle's text is unparseable by every strategy, or its answer
\* has no candidates, the result the run renders is a DetectionResult whose
\* findings are exactly the deduplicated rule-based findings.
C2_UnparseableKeepsRuleFindings ==
    (Analyzed /\ Rendering /\ Unparseable(exchange)) => RuleBasedAlone


\* C3: whatever the oracle answers, no exception reaches main's handlers: a
\* run that got an answer and ended has not exited with code 1, and when it
\* exited 0 it has printed one report.  (Exit code 130 is the user's Ctrl-C.)
C3_NoResponseIsFatal ==
    (Analyzed /\ pc = "done") =>
        /\ exit_code \in {0, 130}
        /\ exit_code = 0 => (Len(printed) = 1 /\ printed[1].kind = "report")

\* C4: a run that reaches rendering hands the renderer a DetectionResult or an
\* IntelligenceReport, one and not the other, and detect_inconsistencies was
\* called in that run (once) iff the result is a DetectionResult.
C4_ExactlyOneResultShape ==
    (pc \in {"render", "exit"} \/ \E i \in 1..Len(printed) : printed[i].kind = "report") =>
        /\ results.kind \in {"DetectionResult", "IntelligenceReport"}
        /\ results.kind = "DetectionResult" => results.report = NoReport
        /\ results.kind = "IntelligenceReport" => results.detection = NoResult
        /\ detect_calls \in {0, 1}
        /\ detect_calls = 1 <=> results.kind = "DetectionResult"

\* a run has rendered an intelligence report without calling detect_inconsistencies
C4_Witness ==
    /\ pc = "done"
    /\ exit_code = 0
    /\ Len(printed) = 1
    /\ printed[1].kind = "report"
    /\ ~printed[1].error
    /\ results.kind = "IntelligenceReport"
    /\ results.report # _get_empty_intelligence_report
    /\ detect_calls = 0

\* main is past its branch on the analysis: it has a result, or it has called
\* detect_inconsistencies
Reconciled == Analyzed /\ (results # NoResults \/ detect_calls = 1)

LegacyKeys ==
    {S_numerical_conflicts, S_contradictory_statements, S_timeline_issues, S_logical_inconsistencies}

\* the path of the run is the one the shape of the parsed object calls for
PathFollowsShape(parsed_data) ==
    IsDict(parsed_data) =>
        IF HasKey(parsed_data, S_intelligence_report)
        THEN /\ detect_calls = 0
             /\ results = IntelligenceReport(Item(parsed_data, S_intelligence_report))
        ELSE /\ detect_calls = 1
             /\ IsDict(Get(ai_analysis, S_inconsistencies, JNull))
             /\ \A key \in LegacyKeys :
                    Get(Get(ai_analysis, S_inconsistencies, JNull), key, JNull)
                        = Get(parsed_data, key, JList(<<>>))

\* C5: when the oracle's text parses to an object, the run takes the
\* intelligence path (the nested object is the result, detect_inconsistencies
\* is not called) iff the object has an intelligence_report key; otherwise the
\* four category lists are read from the object's top level, a missing one as
\* the empty list, and detect_inconsistencies is called.
C5_ShapeDecidesPath ==
    (Reconciled /\ exchange.transport = "ok" /\ exchange.candidates = "text") =>
        PathFollowsShape(_robust_json_parse(exchange.text))


(***************************************************************************)
(* Reconciliation, as the specification words it: two findings have the    *)
(* same dedup key when their slide numbers, sorted, form the same tuple    *)
(* and their lowercased descriptions agree on the first 50 characters.     *)
(***************************************************************************)
Occurrences(seq, v) == Cardinality({i \in 1..Len(seq) : seq[i] = v})

SameSorted(a, b) ==
    /\ Len(a) = Len(b)
    /\ \A v \in Range(a) \cup Range(b) : Occurrences(a, v) = Occurrences(b, v)

First50(s) == [i \in 1..(IF Len(s) < 50 THEN Len(s) ELSE 50) |-> s[i]]

SameKey(a, b) ==
    /\ SameSorted(Get(a, S_slide_numbers, JList(<<>>)).c, Get(b, S_slide_numbers, JList(<<>>)).c)
    /\ First50(Lower(Get(a, S_description, JStr(<<>>)).s))
           = First50(Lower(Get(b, S_description, JStr(<<>>)).s))

\* the indexes of the findings whose key no earlier finding of the list has
KeptIndexes(items) ==
    {i \in 1..Len(items) : \A j \in 1..(i - 1) : ~SameKey(items[j], items[i])}

\* the subsequence of items at the indexes kept, in the order of items
SubsequenceAt(items, kept) ==
    [k \in 1..Cardinality(kept) |->
        items[CHOOSE i \in kept : Cardinality({j \in kept : j < i}) = k - 1]]

FirstOccurrences(items) == SubsequenceAt(items, KeptIndexes(items))

\* _combine_results has returned
Combined == rc_pc \in {"combined", "summarized"}

\* C6: in each category the merged list is the rule-based list followed by the
\* AI list, reduced to the first finding of each dedup key in the same order;
\* rule list [A, B] and AI list [B', C], B and B' sharing a key, give [A, B, C].
C6_MergeKeepsFirstOccurrences ==
    Combined =>
        /\ \A category \in Range(Categories) :
               /\ IsList(rc_combined[category])
               /\ rc_combined[category].c
                      = FirstOccurrences(rc_rule[category].c \o rc_ai[category].c)
        /\ (/\ rc_rule.numerical_conflicts.c = <<FindingA, FindingB>>
            /\ rc_ai.numerical_conflicts.c = <<FindingB2, FindingC>>)
               => rc_combined.numerical_conflicts.c = <<FindingA, FindingB, FindingC>>

\* [A, B] and [B', C] have been merged into [A, B, C]
C6_Witness ==
    /\ rc_pc = "combined"
    /\ SameKey(FindingB, FindingB2)
    /\ FindingB # FindingB2
    /\ rc_rule.numerical_conflicts.c = <<FindingA, FindingB>>
    /\ rc_ai.numerical_conflicts.c = <<FindingB2, FindingC>>
    /\ rc_combined.numerical_conflicts.c = <<FindingA, FindingB, FindingC>>

\* the AI list of the numerical category is the rule-based list itself
SelfReconciled == Combined /\ rc_ai.numerical_conflicts = rc_rule.numerical_conflicts

\* C7 as stated: a list reconciled against itself comes back unchanged.
C7_SelfReconcileUnchanged ==
    SelfReconciled => rc_combined.numerical_conflicts = rc_rule.numerical_conflicts

\* C7, amended: a list L reconciled against itself comes back as the first
\* occurrences of L's dedup keys, which is L itself exactly when no two
\* findings of L share a key; and reconciling the result against itself
\* changes nothing more.
C7_SelfReconcileKeepsFirstOccurrences ==
    SelfReconciled =>
        /\ rc_combined.numerical_conflicts.c = FirstOccurrences(rc_rule.numerical_conflicts.c)
        /\ rc_combined.numerical_conflicts = rc_rule.numerical_conflicts
               <=> KeptIndexes(rc_rule.numerical_conflicts.c)
                       = 1..Len(rc_rule.numerical_conflicts.c)
        /\ _combine_results(rc_combined, rc_combined) = Returned(rc_combined)

\* [B, B'] has been reconciled against itself, and B alone is left
C7_Witness ==
    /\ rc_pc = "combined"
    /\ rc_rule.numerical_conflicts.c = <<FindingB, FindingB2>>
    /\ rc_ai.numerical_conflicts = rc_rule.numerical_conflicts
    /\ rc_combined.numerical_conflicts.c = <<FindingB>>


\* the sum of the counts of a severity_breakdown
RECURSIVE SumCounts(_)
SumCounts(breakdown) ==
    IF breakdown = <<>> THEN 0 ELSE Head(breakdown).count + SumCounts(Tail(breakdown))

\* the sum of the values of a category_breakdown over the categories in S
RECURSIVE SumOver(_, _)
SumOver(breakdown, S) ==
    IF S = {} THEN 0
    ELSE LET category == CHOOSE c \in S : TRUE
         IN  breakdown[category] + SumOver(breakdown, S \ {category})

\* the merged findings of all categories
MergedFindings == _flatten_inconsistencies(rc_combined)

\* the label a finding is counted under
SeverityLabel(item) == IF HasKey(item, S_severity) THEN Item(item, S_severity) ELSE JStr(S_unknown)

\* C8: the summary of the merged findings is consistent: the values of
\* category_breakdown add up to inconsistencies_found, and so do the values of
\* severity_breakdown, findings without a severity included; and that number
\* is the number of merged findings.
C8_SummaryCountsAgree ==
    rc_pc = "summarized" =>
        /\ SumOver(rc_summary.category_breakdown, DOMAIN rc_summary.category_breakdown)
               = rc_summary.inconsistencies_found
        /\ SumCounts(rc_summary.severity_breakdown) = rc_summary.inconsistencies_found
        /\ rc_summary.inconsistencies_found = Len(MergedFindings)

\* a summary of findings of two categories, one of them without a severity
C8_Witness ==
    /\ rc_pc = "summarized"
    /\ rc_summary.inconsistencies_found = 3
    /\ rc_summary.category_breakdown.numerical_conflicts = 2
    /\ rc_summary.category_breakdown.timeline_issues = 1
    /\ \E i \in 1..Len(MergedFindings) : ~HasKey(MergedFindings[i], S_severity)
    /\ \E i \in 1..Len(rc_ai.numerical_conflicts.c) :
           rc_ai.numerical_conflicts.c[i] \notin Range(rc_combined.numerical_conflicts.c)

\* the count severity_breakdown gives for a label (0: no entry)
CountFor(breakdown, label) ==
    IF \E j \in 1..Len(breakdown) : breakdown[j].severity = label
    THEN breakdown[CHOOSE j \in 1..Len(breakdown) : breakdown[j].severity = label].count
    ELSE 0

\* C9: category_breakdown has an entry for each of the four categories, the
\* length of the category's merged list, zero included; severity_breakdown
\* has one entry per label, a finding without a severity counting under
\* 'unknown', and the count of a label is the number of merged findings that
\* carry it.
C9_BreakdownsComplete ==
    rc_pc = "summarized" =>
        /\ DOMAIN rc_summary.category_breakdown = Range(Categories)
        /\ \A category \in Range(Categories) :
               rc_summary.category_breakdown[category] = Len(rc_combined[category].c)
        /\ \A i, j \in 1..Len(rc_summary.severity_breakdown) :
               rc_summary.severity_breakdown[i].severity = rc_summary.severity_breakdown[j].severity
                   => i = j
        /\ \A label \in {SeverityLabel(MergedFindings[i]) : i \in 1..Len(MergedFindings)}
                          \cup {rc_summary.severity_breakdown[j].severity :
                                   j \in 1..Len(rc_summary.severity_breakdown)} :
               /\ CountFor(rc_summary.severity_breakdown, label)
                      = Cardinality({i \in 1..Len(MergedFindings) :
                                        SeverityLabel(MergedFindings[i]) = label})
               /\ CountFor(rc_summary.severity_breakdown, label) > 0

\* a summary with two categories at zero, one finding under 'unknown' and two
\* findings under 'medium'
C9_Witness ==
    /\ rc_pc = "summarized"
    /\ rc_summary.category_breakdown.contradictory_statements = 0
    /\ rc_summary.category_breakdown.logical_inconsistencies = 0
    /\ CountFor(rc_summary.severity_breakdown, JStr(S_unknown)) = 1
    /\ CountFor(rc_summary.severity_breakdown, JStr(S_medium)) = 2
    /\ FindingC \in Range(rc_combined.numerical_conflicts.c)


\* the slides whose text has a keyword of the grouping and that hold the value
SlidesShowing(values, keywords, v) ==
    {n \in DOMAIN slides_data :
        /\ v \in Range(values[n])
        /\ ContainsAny(slide_text(slides_data[n]), keywords)}

\* the scan has emitted a finding of the type for the value
Emitted(type, prefix, v) ==
    \E i \in 1..Len(rule_based_results.numerical_conflicts.c) :
        LET item == rule_based_results.numerical_conflicts.c[i]
        IN  /\ Item(item, S_type) = JStr(type)
            /\ Item(item, S_description) = JStr(prefix \o v \o ConflictSuffix)

\* within one grouping, a value has a finding iff two or more distinct slides show it
GroupingFlagsRepeats(values, keywords, type, prefix) ==
    \A v \in UNION {Range(values[n]) : n \in DOMAIN slides_data} :
        Emitted(type, prefix, v) <=> Cardinality(SlidesShowing(values, keywords, v)) >= 2

\* C10: after the numerical scan of a run, a value of a grouping (revenue,
\* percentage, quantity) has a finding iff that exact value string is on two or
\* more distinct slides whose text has a keyword of the grouping; a value on
\* one slide only has none, however often the slide repeats it.
C10_FindingIffTwoDistinctSlides ==
    (detect_calls = 1) =>
        /\ GroupingFlagsRepeats([n \in DOMAIN slides_data |-> slides_data[n].currency],
                                RevenueKeywords, S_revenue_conflict, RevenuePrefix)
        /\ GroupingFlagsRepeats([n \in DOMAIN slides_data |-> slides_data[n].percentages],
                                PercentageKeywords, S_percentage_conflict, PercentagePrefix)
        /\ GroupingFlagsRepeats([n \in DOMAIN slides_data |-> slides_data[n].numbers],
                                QuantityKeywords, S_quantity_conflict, QuantityPrefix)


\* the elements of a set of slide ordinals, smallest first
InSlideOrder(S) ==
    [k \in 1..Cardinality(S) |-> CHOOSE n \in S : Cardinality({m \in S : m < n}) = k - 1]

\* the indexes of the revenue_conflict findings the scan emitted for a value
RevenueFindings(v) ==
    {i \in 1..Len(rule_based_results.numerical_conflicts.c) :
        /\ Item(rule_based_results.numerical_conflicts.c[i], S_type) = JStr(S_revenue_conflict)
        /\ Item(rule_based_results.numerical_conflicts.c[i], S_description)
               = JStr(RevenuePrefix \o v \o ConflictSuffix)}

\* the value is once on each of the slides, and they are two or more
OncePerSlide(v, shown) ==
    /\ Cardinality(shown) >= 2
    /\ \A n \in shown : Occurrences(slides_data[n].currency, v) = 1

\* one finding for the value, naming the slides in slide order
OneRevenueFinding(v, shown) ==
    /\ Cardinality(RevenueFindings(v)) = 1
    /\ \A i \in RevenueFindings(v) :
           /\ Item(rule_based_results.numerical_conflicts.c[i], S_slide_numbers)
                  = JList([k \in 1..Cardinality(shown) |-> JInt(InSlideOrder(shown)[k])])
           /\ Item(rule_based_results.numerical_conflicts.c[i], S_severity) = JStr(S_high)

CurrencyOf == [n \in DOMAIN slides_data |-> slides_data[n].currency]

SlidesSaying(phrase) ==
    {n \in DOMAIN slides_data : Contains(Lower(Join(<<" ">>, slides_data[n].text)), phrase)}

\* the description of the finding of phrase pair i
PairDescription(i) ==
    ContradictoryPrefix \o contradiction_patterns[i][3] \o ContradictoryMid
        \o contradiction_patterns[i][1] \o ContradictoryVs \o contradiction_patterns[i][2]
        \o ContradictoryEnd

\* the indexes of the findings the scan emitted for phrase pair i
PairFindings(i) ==
    {j \in 1..Len(rule_based_results.contradictory_statements.c) :
        Item(rule_based_results.contradictory_statements.c[j], S_description)
            = JStr(PairDescription(i))}

\* both phrases of pair i are said somewhere in the deck
PairSaid(i) ==
    /\ SlidesSaying(contradiction_patterns[i][1]) # {}
    /\ SlidesSaying(contradiction_patterns[i][2]) # {}

\* the slides of the first phrase followed by the slides of the second
PairSlides(i) ==
    InSlideOrder(SlidesSaying(contradiction_patterns[i][1]))
        \o InSlideOrder(SlidesSaying(contradiction_patterns[i][2]))

\* C12: the contradictory-statement scan emits, for each phrase pair, exactly
\* one finding if and only if some slide's lowercased text contains the first
\* phrase and some slide's contains the second; its slide_numbers are the
\* slides of the first phrase followed by those of the second, duplicates
\* kept, and its severity is high.
C12_OneFindingPerPhrasePair ==
    (detect_calls = 1) =>
        /\ \A i \in 1..Len(contradiction_patterns) :
              /\ Cardinality(PairFindings(i)) = (IF PairSaid(i) THEN 1 ELSE 0)
              /\ \A j \in PairFindings(i) :
                    /\ Item(rule_based_results.contradictory_statements.c[j], S_slide_numbers)
                           = JList([k \in 1..Len(PairSlides(i)) |-> JInt(PairSlides(i)[k])])
                    /\ Item(rule_based_results.contradictory_statements.c[j], S_severity)
                           = JStr(S_high)
        /\ \A j \in 1..Len(rule_based_results.contradictory_statements.c) :
              \E i \in 1..Len(contradiction_patterns) : j \in PairFindings(i)

\* slide 2 says both phrases of the first pair and slide 1 the second only:
\* the finding names slide 2, then slides 1 and 2
C12_Witness ==
    /\ detect_calls = 1
    /\ SlidesSaying(contradiction_patterns[1][1]) = {2}
    /\ SlidesSaying(contradiction_patterns[1][2]) = {1, 2}
    /\ Len(rule_based_results.contradictory_statements.c) = 1
    /\ Item(rule_based_results.contradictory_statements.c[1], S_slide_numbers)
           = IntList(<<2, 1, 2>>)


\* the slides on which the extractor found at least one date
SlidesWithDates == {n \in DOMAIN slides_data : Len(slides_data[n].dates) >= 1}

\* C13: the timeline scan emits no finding when no slide or one slide has
\* dates, and exactly one finding, of severity medium, whose slide_numbers
\* are all the slides with at least one date, when two or more slides have.
C13_TimelineFindingIffTwoDatedSlides ==
    (detect_calls = 1) =>
        IF Cardinality(SlidesWithDates) >= 2
        THEN /\ Len(rule_based_results.timeline_issues.c) = 1
             /\ Item(rule_based_results.timeline_issues.c[1], S_slide_numbers)
                    = JList([k \in 1..Cardinality(SlidesWithDates)
                                |-> JInt(InSlideOrder(SlidesWithDates)[k])])
             /\ Item(rule_based_results.timeline_issues.c[1], S_severity) = JStr(S_medium)
             /\ Item(rule_based_results.timeline_issues.c[1], S_type) = JStr(S_timeline_issues)
        ELSE rule_based_results.timeline_issues.c = <<>>

\* slides 1 and 3 of three carry a date: one finding, for slides [1, 3]
C13_Witness ==
    /\ detect_calls = 1
    /\ SlidesWithDates = {1, 3}
    /\ DOMAIN slides_data = {1, 2, 3}
    /\ Len(rule_based_results.timeline_issues.c) = 1
    /\ Item(rule_based_results.timeline_issues.c[1], S_slide_numbers) = IntList(<<1, 3>>)

\* one slide of the deck carries a date: the scan has emitted nothing
C13_WitnessOneDatedSlide ==
    /\ detect_calls = 1
    /\ Cardinality(SlidesWithDates) = 1
    /\ rule_based_results.timeline_issues.c = <<>>


\* the parse chain has returned and the answer was read
Parsed == jp_pc = "done"

\* the text is a JSON object
IsJsonObject(text) == json_loads(text).ok /\ IsDict(json_loads(text).v)

\* C14: an answer that is a valid JSON object but for a comma before its
\* closing brace is repaired by the parse chain and parses to the object the
\* text without that comma parses to.
C14_TrailingCommaRepaired ==
    (Parsed /\ jp_form = "trailing_comma" /\ IsJsonObject(jp_base) /\ jp_text # jp_base)
        => jp_parsed = json_loads(jp_base).v

\* C15: an answer that is a fenced code block around a valid JSON object
\* parses to the object the unwrapped text parses to, and is read as the
\* same report, of the same shape.
C15_FencedParsesAsUnwrapped ==
    (Parsed /\ jp_form \in {"fenced", "fenced_bare"} /\ IsJsonObject(jp_base))
        => /\ jp_parsed = json_loads(jp_base).v
           /\ jp_report = _parse_analysis_response([candidates |-> "text", text |-> jp_base])
           /\ Tagged(jp_report, JInt(1))
                  = analyze_inconsistencies(TRUE, <<SlidePlain>>, Exchange("ok", "text", jp_base))

\* the report with its executive summary, sent in a ```json fence, was taken
\* from the fenced block and read as the intelligence report it holds
C15_Witness ==
    /\ Parsed
    /\ jp_form = "fenced"
    /\ jp_base = TextReport
    /\ jp_tried = <<1, 2>>
    /\ jp_report = Item(json_loads(TextReport).v, S_intelligence_report)
    /\ HasKey(jp_report, S_executive_summary)

\* strategy n succeeds on the text: json.loads took one of its candidates
Succeeds(n) == Strategy(jp_text, n).ok

\* the strategies that succeed on the text
Succeeding == {n \in 1..5 : Succeeds(n)}

\* the first strategy that succeeds, if one does
FirstSucceeding == CHOOSE n \in Succeeding : \A m \in Succeeding : n <= m

\* C16: the parse chain tries direct parse, fenced block, brace-delimited
\* object, fence stripping and repair strictly in this order; it returns the
\* value of the first strategy that succeeds and consults none after it; when
\* none succeeds the adapter returns the default empty report.
C16_StrategiesInOrderFirstSuccessWins ==
    [][/\ (jp_tried' # jp_tried) =>
              /\ jp_tried' = Append(jp_tried, Len(jp_tried) + 1)
              /\ Len(jp_tried') <= 5
              /\ \A k \in 1..Len(jp_tried) : ~Succeeds(jp_tried[k])
       /\ (jp_pc = "parse" /\ jp_pc' = "interpret") =>
              IF Succeeding # {}
              THEN /\ jp_parsed' = Strategy(jp_text, FirstSucceeding).v
                   /\ jp_tried' = [k \in 1..FirstSucceeding |-> k]
              ELSE /\ jp_parsed' = JNull
                   /\ jp_tried' = <<1, 2, 3, 4, 5>>
       /\ (jp_pc = "interpret" /\ jp_pc' = "done") =>
              /\ jp_tried' = jp_tried
              /\ (Succeeding = {} => jp_report' = _get_empty_intelligence_report)
      ]_vars

\* four strategies passed on {"a": 1,} and the repair returned {"a": 1}
C16_Witness ==
    /\ Parsed
    /\ jp_text = InForm("trailing_comma", TextLegacyEmpty)
    /\ jp_tried = <<1, 2, 3, 4, 5>>
    /\ jp_parsed = json_loads(TextLegacyEmpty).v

\* no strategy took the prose answer: the adapter returned the empty report
C16_WitnessNoneSucceeds ==
    /\ Parsed
    /\ jp_text = TextProse
    /\ jp_tried = <<1, 2, 3, 4, 5>>
    /\ jp_parsed = JNull
    /\ jp_report = _get_empty_intelligence_report


\* the run has ended, and not by an interrupt from the keyboard
Ended == pc = "done" /\ exit_code # 130

\* the source file is missing, not a file or not a .pptx
BadSourceFile == args.filename # "pptx"

\* the file was accepted but no slide could be extracted from it
UnreadableSourceFile ==
    /\ ~BadSourceFile
    /\ env.pptx_available /\ env.api_key
    /\ slides_data = <<>>
    /\ api_calls = 0

\* both ends of the range are given and the start is after the end
StartAfterEnd ==
    /\ args.start_slide # 0
    /\ args.end_slide # 0
    /\ args.start_slide > args.end_slide

\* the range selected no slide of the deck: the detection runs on no slide
RangeSelectsNoSlide == slides_data = <<>> /\ api_calls = 1

InputError == BadSourceFile \/ UnreadableSourceFile \/ StartAfterEnd \/ RangeSelectsNoSlide

\* the last text printed is a report
ReportPrinted == printed # <<>> /\ printed[Len(printed)].kind = "report"

\* C17: the process exits with a non-zero code only for input errors
\* (missing or invalid source file, unsupported slide range); every other
\* failure, a missing API key included, ends with exit code 0 and a report.
C17_NonZeroExitOnlyForInputErrors ==
    Ended => IF InputError THEN TRUE ELSE exit_code = 0 /\ ReportPrinted

\* C18: an input error (bad path, or a slide range with start > end or
\* selecting no slide) is surfaced at once: neither the AI adapter nor the
\* rule-based detector is invoked, and the run ends with an error and a
\* non-zero exit code.
C18_InputErrorAbortsBeforeDetection ==
    (BadSourceFile \/ StartAfterEnd \/ RangeSelectsNoSlide) =>
        /\ api_calls = 0
        /\ detect_calls = 0
        /\ Ended => (exit_code # 0 /\ printed[Len(printed)].kind = "error")


\* a start or an end slide is given on the command line
RangeGiven == args.start_slide # 0 \/ args.end_slide # 0

\* start <= n <= end, an end that is not given standing for the last slide
\* and a start that is not given for slide 1
InRange(n) ==
    /\ (args.start_slide # 0) => args.start_slide <= n
    /\ (args.end_slide # 0) => n <= args.end_slide

\* the slides the findings of a category -> list mapping refer to
SlidesReferenced(findings) ==
    UNION {UNION {{Item(findings[category].c[i], S_slide_numbers).c[k].n :
                      k \in 1..Len(Item(findings[category].c[i], S_slide_numbers).c)} :
                  i \in 1..Len(findings[category].c)} :
           category \in Range(Categories)}

\* C19: when a start or an end slide is given, the slide mapping that the AI
\* adapter, the rule-based detector and the summary's slide count see is
\* exactly the slides n with start <= n <= end of the extracted deck, and no
\* rule-based finding refers to a slide outside the range.
C19_RangeFilterPrecedesDetection ==
    [][RangeGiven =>
          /\ (pc = "filter" /\ pc' = "analyze") =>
                 /\ DOMAIN slides_data' = {n \in DOMAIN slides_data : InRange(n)}
                 /\ \A n \in DOMAIN slides_data' : slides_data'[n] = slides_data[n]
          /\ (pc \in {"analyze", "reconcile", "render", "exit"}) =>
                 slides_data' = slides_data
          /\ (api_calls' # api_calls /\ ~HasKey(ai_analysis', S_error)) =>
                 Item(ai_analysis', S_slides_analyzed) = JInt(Cardinality(DOMAIN slides_data))
          /\ (detect_calls' # detect_calls) =>
                 /\ SlidesReferenced(rule_based_results')
                        \subseteq {n \in DOMAIN slides_data : InRange(n)}
                 /\ (results'.kind = "DetectionResult") =>
                        results'.detection.summary.total_slides
                            = Cardinality(DOMAIN slides_data)
      ]_vars

\* slides 2 and 3 of a three-slide deck were selected by --start-slide 2: the
\* detector reported on them only and the summary counts two slides
C19_Witness ==
    /\ args.start_slide = 2
    /\ args.end_slide = 0
    /\ detect_calls = 1
    /\ DOMAIN slides_data = {2, 3}
    /\ SlidesReferenced(rule_based_results) = {2, 3}
    /\ results.kind = "DetectionResult"
    /\ results.detection.summary.total_slides = 2


\* the transport of the oracle call failed: requests.post or raise_for_status
\* raised, or the body was not JSON
TransportFailed == exchange.transport \in {"connection_error", "http_error", "invalid_body"}

\* C20: in any run the oracle is called at most once; a transport failure
\* is turned into an error-tagged result by the step that made the call, and
\* no further call is attempted in that run.
C20_OracleCalledAtMostOnce ==
    [][/\ api_calls' \in {api_calls, api_calls + 1}
       /\ api_calls' <= 1
       /\ (api_calls' # api_calls /\ TransportFailed') =>
              /\ ai_analysis' = JDict(<<S_error>>, <<ErrorMessage>>)
              /\ pc' # "analyze"
       /\ TransportFailed =>
              /\ api_calls' = api_calls
              /\ ai_analysis' = ai_analysis
      ]_vars

\* the one call failed on the wire; the run went on with the rule-based scan
\* and ended without another call
C20_Witness ==
    /\ TransportFailed
    /\ api_calls = 1
    /\ HasKey(ai_analysis, S_error)
    /\ detect_calls = 1
    /\ pc = "done"
    /\ exit_code = 0


\* other outcomes of the AI analysis for the same slides: nothing (after an
\* error), an empty legacy answer, a legacy answer with findings
OtherAnalyses ==
    {JDict(<<>>, <<>>),
     Tagged(LegacyShape(JDict(<<>>, <<>>)), JInt(0)),
     Tagged(LegacyShape(json_loads(TextLegacy).v), JInt(0))}

\* the number of findings in a category -> list mapping
FindingCount(findings) ==
    Len(findings.numerical_conflicts.c) + Len(findings.contradictory_statements.c)
        + Len(findings.timeline_issues.c) + Len(findings.logical_inconsistencies.c)

\* the run went through detect_inconsistencies and has its DetectionResult
Detection == detect_calls = 1 /\ results.kind = "DetectionResult"

\* a detection on the slides of the run that returned has the run's rule_based_count
SameRuleBasedCount(detected) ==
    ~detected.raised => detected.value.rule_based_count = results.detection.rule_based_count

\* C21: the rule-based findings depend on the slides only: whatever the AI
\* outcome of the run, detect_inconsistencies on the same slides (hence on
\* the same rule-based scan) with another AI outcome gives a result with the
\* same rule_based_count, which counts the rule-based lists of the run.
C21_RuleBasedIndependentOfAi ==
    Detection =>
        /\ results.detection.rule_based_count = FindingCount(rule_based_results)
        /\ \A other \in OtherAnalyses :
               SameRuleBasedCount(WithRuleBased(rule_based_results, slides_data, other))

\* the oracle's legacy answer repeated the revenue conflict of the scan and
\* added a finding: two AI findings, one rule-based finding, two merged
C21_Witness ==
    /\ Detection
    /\ exchange.text = TextLegacy
    /\ results.detection.rule_based_count = 1
    /\ results.detection.ai_based_count = 2
    /\ FindingCount(results.detection.inconsistencies) = 2


\* the text is empty or whitespace only
Blank(text) == \A i \in 1..Len(text) : IsSpace(text[i])

\* no shape of the slide has text and the slide has no table
NothingToExtract(slide) ==
    /\ \A i \in 1..Len(slide.shapes) : Blank(slide.shapes[i])
    /\ slide.tables = <<>>

\* the text and fact sequences of the record are all empty
AllEmpty(record) ==
    /\ record.text = <<>> /\ record.titles = <<>> /\ record.body_text = <<>>
    /\ record.shape_text = <<>> /\ record.table_data = <<>>
    /\ record.numbers = <<>> /\ record.percentages = <<>>
    /\ record.currency = <<>> /\ record.dates = <<>>

\* C22: extraction yields exactly one record per slide of the presentation,
\* with the ordinals 1..N; a slide on which nothing can be extracted yields
\* a record whose text and fact sequences are all empty; the summary's
\* total_slides is the number of records passed to detection.
C22_OneRecordPerSlide ==
    /\ (pc = "filter") =>
           /\ DOMAIN slides_data = 1..Len(presentation)
           /\ \A n \in DOMAIN slides_data :
                  /\ slides_data[n].slide_number = n
                  /\ NothingToExtract(presentation[n]) => AllEmpty(slides_data[n])
    /\ Detection =>
           results.detection.summary.total_slides = Cardinality(DOMAIN slides_data)

\* slide 1 of two holds a shape with blanks only: its record is there, empty,
\* and the summary of the run counts two slides
C22_Witness ==
    /\ Detection
    /\ Len(presentation) = 2
    /\ NothingToExtract(presentation[1])
    /\ DOMAIN slides_data = {1, 2}
    /\ AllEmpty(slides_data[1])
    /\ results.detection.summary.total_slides = 2


\* the slide's lowercased joined text contains a keyword of the grouping
Gated(n, keywords) ==
    \E k \in 1..Len(keywords) :
        Contains(Lower(Join(<<" ">>, slides_data[n].text)), keywords[k])

\* the occurrences of a value on gated slides, as (slide, position) pairs
Contributions(values, keywords, v) ==
    UNION {{<<n, i>> : i \in {i \in 1..Len(values[n]) : values[n][i] = v}} :
              n \in {n \in DOMAIN slides_data : Gated(n, keywords)}}

\* the indexes of the findings of a type the scan emitted for a value
FindingsFor(type, prefix, v) ==
    {j \in 1..Len(rule_based_results.numerical_conflicts.c) :
        /\ Item(rule_based_results.numerical_conflicts.c[j], S_type) = JStr(type)
        /\ Item(rule_based_results.numerical_conflicts.c[j], S_description)
               = JStr(prefix \o v \o ConflictSuffix)}

\* within one grouping: only occurrences on gated slides count towards a
\* finding, and a finding names a slide once per occurrence if the slide is
\* gated and not at all if it is not
GroupingIsGated(values, keywords, type, prefix) ==
    \A v \in UNION {Range(values[n]) : n \in DOMAIN slides_data} :
        /\ (FindingsFor(type, prefix, v) # {})
               <=> Cardinality(Contributions(values, keywords, v)) >= 2
        /\ \A j \in FindingsFor(type, prefix, v), n \in DOMAIN slides_data :
               Occurrences(Item(rule_based_results.numerical_conflicts.c[j], S_slide_numbers).c,
                           JInt(n))
                   = IF Gated(n, keywords) THEN Occurrences(values[n], v) ELSE 0

\* C23: a slide contributes its currency (percentage, plain-number) values to
\* the revenue (percentage, quantity) grouping iff its lowercased joined text
\* contains a keyword of that grouping; occurrences on other slides never
\* count towards a finding and never appear in its slide_numbers.
C23_GroupingsAreKeywordGated ==
    (detect_calls = 1) =>
        /\ GroupingIsGated([n \in DOMAIN slides_data |-> slides_data[n].currency],
                           RevenueKeywords, S_revenue_conflict, RevenuePrefix)
        /\ GroupingIsGated([n \in DOMAIN slides_data |-> slides_data[n].percentages],
                           PercentageKeywords, S_percentage_conflict, PercentagePrefix)
        /\ GroupingIsGated([n \in DOMAIN slides_data |-> slides_data[n].numbers],
                           QuantityKeywords, S_quantity_conflict, QuantityPrefix)

\* slides 1, 2 and 3 show $500,000; slide 2 ('Price: ...') has no revenue
\* keyword: the finding names slides 1 and 3 only
C23_Witness ==
    /\ detect_calls = 1
    /\ DOMAIN slides_data = {1, 2, 3}
    /\ \A n \in {1, 2, 3} : slides_data[n].currency # <<>>
    /\ \A n \in {1, 2, 3} : slides_data[n].currency = slides_data[1].currency
    /\ Gated(1, RevenueKeywords) /\ ~Gated(2, RevenueKeywords) /\ Gated(3, RevenueKeywords)
    /\ \E j \in FindingsFor(S_revenue_conflict, RevenuePrefix, slides_data[1].currency[1]) :
           Item(rule_based_results.numerical_conflicts.c[j], S_slide_numbers) = IntList(<<1, 3>>)


\* the slide ordinals a finding names, as a set
SlideSet(item) == Range(Get(item, S_slide_numbers, JList(<<>>)).c)

\* the same set of slides, and descriptions that agree, case aside, on their
\* first 50 characters
SameSlidesAndDescription(a, b) ==
    /\ SlideSet(a) = SlideSet(b)
    /\ First50(Lower(Get(a, S_description, JStr(<<>>)).s))
           = First50(Lower(Get(b, S_description, JStr(<<>>)).s))

\* the indexes of the findings that no earlier finding of the list matches in
\* slide set and description
FirstOfSlideSet(items) ==
    {i \in 1..Len(items) : \A j \in 1..(i - 1) : ~SameSlidesAndDescription(items[j], items[i])}

\* C24: for deduplication slide_numbers is an unordered set: two findings of a
\* category that name the same set of slides (in any order) and whose
\* lowercased descriptions agree on their first 50 characters are collapsed
\* into the earlier one.
C24_SameSlideSetCollapses ==
    Combined =>
        \A category \in Range(Categories) :
            rc_combined[category].c
                = SubsequenceAt(rc_rule[category].c \o rc_ai[category].c,
                                FirstOfSlideSet(rc_rule[category].c \o rc_ai[category].c))

\* the same, for findings none of which names a slide twice
C24_HoldsWithoutRepeatedSlides ==
    (Combined /\ FindingA2 \notin Range(rc_rule.numerical_conflicts.c)
                                     \cup Range(rc_ai.numerical_conflicts.c))
        => \A category \in Range(Categories) :
               rc_combined[category].c
                   = SubsequenceAt(rc_rule[category].c \o rc_ai[category].c,
                                   FirstOfSlideSet(rc_rule[category].c \o rc_ai[category].c))


\* no two findings of the list share a dedup key
KeysDistinct(items) ==
    \A i, j \in 1..Len(items) : i < j => ~SameKey(items[i], items[j])

\* C25: in every DetectionResult, within each category no two findings share
\* a dedup key (sorted slide numbers, first 50 characters of the lowercased
\* description), and deduplicating a category's merged list again leaves it
\* unchanged.
C25_MergedListsAreDuplicateFree ==
    Detection =>
        \A category \in Range(Categories) :
            /\ KeysDistinct(results.detection.inconsistencies[category].c)
            /\ _deduplicate_items(results.detection.inconsistencies[category].c)
                   = Returned(results.detection.inconsistencies[category])

\* the AI repeated the rule-based finding: three findings went into the
\* merge and two came out
C25_Witness ==
    /\ Detection
    /\ results.detection.rule_based_count + results.detection.ai_based_count = 3
    /\ FindingCount(results.detection.inconsistencies) = 2
    /\ \E category \in Range(Categories) :
           Len(results.detection.inconsistencies[category].c) = 2


\* the step in which _combine_results returns
CombineStep == rc_pc = "input" /\ rc_pc' = "combined"

\* C26: reconciliation does not mutate its inputs: after _combine_results the
\* rule-based and the AI list of every category have the length, order and
\* findings they had before the call, and the merged lists are new list
\* objects, none of them one of the argument lists.
C26_CombineLeavesInputsAlone ==
    [][CombineStep =>
          /\ rc_rule' = rc_rule
          /\ rc_ai' = rc_ai
          /\ rc_ids'.rule = rc_ids.rule /\ rc_ids'.ai = rc_ids.ai
          /\ \A category \in Range(Categories) :
                 rc_ids'.combined[category] \notin LiveLists(rc_ids)
          /\ \A c1, c2 \in Range(Categories) :
                 c1 # c2 => rc_ids'.combined[c1] # rc_ids'.combined[c2]]_vars

\* [A, B] and [B', C] have been merged into a third list, [A, B, C], and
\* are what they were
C26_Witness ==
    /\ rc_pc = "combined"
    /\ rc_rule.numerical_conflicts.c = <<FindingA, FindingB>>
    /\ rc_ai.numerical_conflicts.c = <<FindingB2, FindingC>>
    /\ rc_combined.numerical_conflicts.c = <<FindingA, FindingB, FindingC>>
    /\ rc_ids.combined.numerical_conflicts
           \notin {0, rc_ids.rule.numerical_conflicts, rc_ids.ai.numerical_conflicts}


\* the number of whitespace-separated tokens of a fragment
Tokens(fragment) ==
    Cardinality({i \in 1..Len(fragment) :
                    /\ ~IsSpace(fragment[i])
                    /\ i > 1 => IsSpace(fragment[i - 1])})

\* the fragment, lowercased, holds one of 'title', 'heading', 'slide'
NamesATitle(fragment) ==
    \E k \in 1..Len(TitleKeywords), i \in 1..Len(fragment) :
        /\ i + Len(TitleKeywords[k]) - 1 <= Len(fragment)
        /\ SubSeq(Lower(fragment), i, i + Len(TitleKeywords[k]) - 1) = TitleKeywords[k]

TitleLike(fragment) == Tokens(fragment) <= 10 /\ NamesATitle(fragment)

\* titles and body_text split text in two, each in the order of text
PartitionedByTitle(record) ==
    /\ record.titles
           = SubsequenceAt(record.text, {i \in 1..Len(record.text) : TitleLike(record.text[i])})
    /\ record.body_text
           = SubsequenceAt(record.text, {i \in 1..Len(record.text) : ~TitleLike(record.text[i])})
    /\ Len(record.titles) + Len(record.body_text) = Len(record.text)
    /\ \A fragment \in Range(record.text) :
           /\ Occurrences(record.titles, fragment) + Occurrences(record.body_text, fragment)
                  = Occurrences(record.text, fragment)
           /\ Occurrences(record.titles, fragment) = 0
                  \/ Occurrences(record.body_text, fragment) = 0

\* C27: in every SlideRecord, titles and body_text are a partition of text
\* that keeps order and multiplicity: a fragment is in titles iff it has at
\* most 10 whitespace-separated tokens and contains 'title', 'heading' or
\* 'slide', and in body_text otherwise.
C27_TitlesAndBodyPartitionText ==
    \A n \in DOMAIN slides_data : PartitionedByTitle(slides_data[n])

\* a record of five fragments: three titles, one of them twice, and two body
\* texts, one of them a long sentence with 'slide' in it
C27_Witness ==
    \E n \in DOMAIN slides_data :
        /\ Len(slides_data[n].text) = 5
        /\ Len(slides_data[n].titles) = 3
        /\ slides_data[n].titles[1] = slides_data[n].titles[3]
        /\ Len(slides_data[n].body_text) = 2
        /\ \E i \in 1..2 : /\ NamesATitle(slides_data[n].body_text[i])
                           /\ Tokens(slides_data[n].body_text[i]) > 10


\* the run reconciled the rule-based findings with no AI finding at all
DetectionWithoutAi == Detection /\ results.detection.ai_based_count = 0

NoRuleFindingLost ==
    /\ results.detection.summary.inconsistencies_found = results.detection.rule_based_count
    /\ \A category \in Range(Categories) :
           results.detection.inconsistencies[category] = rule_based_results[category]

\* C28: when the AI findings are empty (AI error or empty legacy result) no
\* rule-based finding is lost to deduplication: inconsistencies_found equals
\* rule_based_count and each category's merged list is the rule-based list of
\* that category, whatever the slides.
C28_EmptyAiKeepsRuleFindings == DetectionWithoutAi => NoRuleFindingLost

\* the same, for runs whose rule-based findings have pairwise different keys
C28_HoldsForDistinctKeys ==
    (/\ DetectionWithoutAi
     /\ \A category \in Range(Categories) : KeysDistinct(rule_based_results[category].c))
        => NoRuleFindingLost


\* the findings of the rule-based scan, of all categories
RuleBasedFindings ==
    UNION {Range(rule_based_results[category].c) : category \in Range(Categories)}

\* C29: every finding of the rule-based detector (numerical, contradictory
\* statement or timeline) is cross-slide: its slide_numbers holds at least two
\* distinct slide ordinals.
C29_RuleFindingsAreCrossSlide ==
    (detect_calls = 1) => \A finding \in RuleBasedFindings : Cardinality(SlideSet(finding)) >= 2

\* the same for the timeline findings alone, which name each dated slide once
C29_TimelineFindingsAreCrossSlide ==
    (detect_calls = 1) =>
        \A finding \in Range(rule_based_results.timeline_issues.c) :
            Cardinality(SlideSet(finding)) >= 2


\* the report the run printed (the last thing it printed before the exit test)
Rendered == printed[Len(printed)]

\* main took the intelligence branch: detect_inconsistencies was not called
IntelligencePath == detect_calls = 0

\* C30: the renderer's dispatch agrees with the path the run took: a
\* DetectionResult is rendered by the legacy formatters and an
\* IntelligenceReport by the intelligence formatters; the result holds the
\* key executive_summary iff the run took the intelligence path.
C30_RendererFollowsThePath ==
    /\ (results.kind # "none") =>
           /\ ResultsHasKey(results, S_executive_summary) <=> IntelligencePath
           /\ (results.kind = "IntelligenceReport") <=> IntelligencePath
    /\ ReportPrinted =>
           /\ results.kind = "DetectionResult" => Rendered.formatter = "legacy"
           /\ results.kind = "IntelligenceReport" => Rendered.formatter = "intelligence"
           /\ (Rendered.formatter = "intelligence") <=> IntelligencePath

\* an intelligence report has been rendered by the intelligence formatter
C30_Witness ==
    /\ ReportPrinted
    /\ results.kind = "IntelligenceReport"
    /\ Get(ai_analysis, S_analysis_type, JNull) = JStr(S_intelligence)
    /\ Rendered.formatter = "intelligence"
    /\ detect_calls = 0

\* a DetectionResult has been rendered by a legacy formatter
C30_WitnessLegacy ==
    /\ ReportPrinted
    /\ results.kind = "DetectionResult"
    /\ Rendered.formatter = "legacy"
    /\ detect_calls = 1

=============================================================================
